---- MODULE Spec2Model ----
(***************************************************************************)
(* erssi-lith-bridge: the translator store (internal/translator), the      *)
(* bridge orchestrator (internal/bridge), the upstream driver              *)
(* (internal/erssi/client.go) and the downstream relay server              *)
(* (internal/weechat), as one state machine.                               *)
(*                                                                         *)
(* Strings are TLA+ strings; the string functions of the code (ToLower,    *)
(* Sprintf("0x%x"), Sprintf("%s.%s")) are computed character by character.  *)
(***************************************************************************)
EXTENDS Integers, Sequences, FiniteSets, TLC

\* ------------------------------------------------------------------------
\* Bounds of the model (not program constants).

\* Largest value the clock (time.Now().UnixNano(), in clock ticks) reaches
\* in one behaviour of SpecTranslator.
MaxClock == 2

\* Lines lineLog in all in one behaviour of SpecTranslator.
MaxMsgs == 3

\* Frames the upstream read loop reads, and commands the downstream
\* clients send, in one behaviour of Spec.
MaxFrames == 2
MaxCmds == 2

\* Messages lineLog in one behaviour of SpecLines.
MaxAppend == 502

\* Frames the upstream read loop reads in one behaviour of SpecDumpEnd.
MaxDumpEndFrames == 3

\* Messages written on the downstream wire in one behaviour of SpecWire.
MaxWire == 1

\* Frames the upstream read loop reads in one behaviour of SpecSessions.
MaxSessionFrames == 1

\* Calls of Client.SendMessage in one behaviour of SpecWrites.
MaxWriters == 2

\* Frames the upstream read loop reads, dropped ones included, in one
\* behaviour of SpecReadLoop.
MaxWireFrames == 3

\* ------------------------------------------------------------------------
\* Program constants.

\* translator.go: "if len(buffer.Lines) > 500".
MaxLines == 500

\* time.Now().Unix() is time.Now().UnixNano() in whole seconds.
NanosPerSecond == 1000000000

\* handleLineRequest: "count := 50 // default".
DefaultCount == 50

\* ------------------------------------------------------------------------
\* String functions.

UpperLetters == "ABCDEFGHIJKLMNOPQRSTUVWXYZ"
LowerLetters == "abcdefghijklmnopqrstuvwxyz"
HexDigits == "0123456789abcdef"

CharAt(s, i) == SubSeq(s, i, i)

LowerChar(c) ==
  IF \E i \in 1..Len(UpperLetters) : CharAt(UpperLetters, i) = c
  THEN LET i == CHOOSE j \in 1..Len(UpperLetters) : CharAt(UpperLetters, j) = c
       IN  CharAt(LowerLetters, i)
  ELSE c

\* strings.ToLower, character by character
RECURSIVE ToLowerChars(_)
ToLowerChars(s) ==
  IF s = "" THEN ""
  ELSE LowerChar(CharAt(s, 1)) \o ToLowerChars(SubSeq(s, 2, Len(s)))

\* ToLowerChars of the channel and nick names of the model, computed once
LowerMemo ==
  [s \in {"", "#Foo", "#foo", "#FOO", "#a", "#A", "#b", "alice", "libera", "weechat"} |->
     ToLowerChars(s)]

\* strings.ToLower
ToLower(s) == IF s \in DOMAIN LowerMemo THEN LowerMemo[s] ELSE ToLowerChars(s)

\* the hexadecimal digits of n >= 0, most significant first
RECURSIVE HexChars(_)
HexChars(n) ==
  IF n < 16 THEN CharAt(HexDigits, n + 1)
  ELSE HexChars(n \div 16) \o CharAt(HexDigits, (n % 16) + 1)

\* HexChars of the clock values of the model, computed once
HexMemo == [n \in 0..1023 |-> HexChars(n)]

\* fmt.Sprintf("%x", n), n >= 0
Hex(n) == IF n \in DOMAIN HexMemo THEN HexMemo[n] ELSE HexChars(n)

\* strings.HasPrefix
HasPrefix(s, prefix) ==
  Len(s) >= Len(prefix) /\ SubSeq(s, 1, Len(prefix)) = prefix

\* strings.Index, counted from 1: 0 when sub is not in s
Index(s, sub) ==
  LET at == {i \in 1..(Len(s) - Len(sub) + 1) : SubSeq(s, i, i + Len(sub) - 1) = sub}
  IN  IF at = {} THEN 0 ELSE CHOOSE i \in at : \A j \in at : i <= j

\* strings.TrimSpace, for spaces
RECURSIVE TrimSpace(_)
TrimSpace(s) ==
  IF s = "" THEN ""
  ELSE IF CharAt(s, 1) = " " THEN TrimSpace(SubSeq(s, 2, Len(s)))
  ELSE IF CharAt(s, Len(s)) = " " THEN TrimSpace(SubSeq(s, 1, Len(s) - 1))
  ELSE s

\* the length of the longest prefix of s made of the characters of chars
RECURSIVE RunLen(_, _)
RunLen(s, chars) ==
  IF s = "" \/ Index(chars, CharAt(s, 1)) = 0 THEN 0
  ELSE 1 + RunLen(SubSeq(s, 2, Len(s)), chars)

\* strings.Fields, for fields separated by spaces
RECURSIVE Fields(_)
Fields(s) ==
  IF s = "" THEN <<>>
  ELSE IF CharAt(s, 1) = " " THEN Fields(SubSeq(s, 2, Len(s)))
  ELSE LET n == IF Index(s, " ") = 0 THEN Len(s) ELSE Index(s, " ") - 1
       IN  <<SubSeq(s, 1, n)>> \o Fields(SubSeq(s, n + 1, Len(s)))

DecimalDigits == "0123456789"

\* strconv.Atoi of an optional "-" and decimal digits
RECURSIVE DigitsValue(_)
DigitsValue(s) ==
  IF s = "" THEN 0
  ELSE 10 * DigitsValue(SubSeq(s, 1, Len(s) - 1))
         + (Index(DecimalDigits, CharAt(s, Len(s))) - 1)
Atoi(s) == IF HasPrefix(s, "-") THEN 0 - DigitsValue(SubSeq(s, 2, Len(s)))
           ELSE DigitsValue(s)

\* a mutant of getBufferKey: the target is not lowercased
getBufferKeyNoLower(serverTag, target) == serverTag \o "." \o target

\* fmt.Sprintf("%s.%s", serverTag, strings.ToLower(target))
getBufferKey(serverTag, target) == serverTag \o "." \o ToLower(target)

\* ------------------------------------------------------------------------
\* State.

VARIABLES
  \* the translator
  buffers,        \* Translator.buffers: key -> BufferState
  nextBufferNum,  \* Translator.nextBufferNum
  clock,          \* the value time.Now().UnixNano() returned last
  touched,        \* history (SpecIdentity): the (server_tag, target) pairs
                  \* of the events and ensure calls the translator has
                  \* been given
  lineLog,        \* history: getBufferKey(server_tag, target) of the
                  \* message events -> every line lineLog for them,
                  \* oldest first
  ingested,       \* history (SpecRedump): the state dumps
                  \* ErssiToBufferList has been given
  \* the bridge
  phase,              \* progress of Bridge.Start / Bridge.Stop; Start holds
                      \* b.mu while phase = "starting", b.running is
                      \* phase = "running"
  inStateDump,        \* Bridge.inStateDump
  stateDumpServer,    \* Bridge.stateDumpServer
  stateDumpRequested, \* Bridge.stateDumpRequested
  \* the upstream client
  conn,           \* Client.conn: "nil", "open", or "broken" (not nil, the
                  \* transport has failed)
  loopMsg,        \* readLoop's variable msg, as parsed last
  received,       \* history: the message parsed in each iteration
  tasks,          \* the goroutines "go c.onMessage(&msgCopy)", in the
                  \* order readLoop started them
  sent,           \* the messages written on the upstream connection
  dropped,        \* history: the frames readLoop has read and dropped,
                  \* each with the number of frames parsed before it
  life,           \* history: how many times each of these has happened:
                  \*   accepts       "go s.acceptLoop()" in Server.Start;
                  \*   acceptEnds    acceptLoop has returned;
                  \*   serverCloses  close(s.done) in Server.Close;
                  \*   loops         "go c.readLoop()" in Client.Connect;
                  \*   loopEnds      close(c.done) in readLoop's deferred
                  \*                 function;
                  \*   disconnects   "go c.onDisconnect(err)" in readLoop;
                  \*   lateSends     (SpecShutdown) Client.SendMessage
                  \*                 called for a command after Bridge.Stop
  \* the downstream server
  listening,      \* Server.listener is accepting
  clients,        \* downstream connection -> its Client
  cmds,           \* the goroutines "go s.onCommand(...)", in the order
                  \* the server started them
  outbox,         \* downstream connection -> the messages written to it
  wire,           \* (SpecWire) the messages Client.SendMessage has encoded,
                  \* each with the bytes written
  sockets,        \* (SpecWrites) downstream connection -> the holder of
                  \* its Client.mu and the bytes written on its socket
  writers,        \* (SpecWrites) the goroutines inside Client.SendMessage
  threads         \* (SpecLocks) kind of goroutine -> where it stands in
                  \* the lock and unlock calls it makes

storeVars == <<buffers, nextBufferNum, clock, touched, lineLog, ingested>>
bridgeVars == <<phase, inStateDump, stateDumpServer, stateDumpRequested>>
upVars == <<conn, loopMsg, received, tasks, sent, dropped, life>>
wireVars == <<wire, sockets, writers>>
downVars == <<listening, clients, cmds, outbox, wireVars>>
vars == <<buffers, nextBufferNum, clock, touched, lineLog, ingested,
          phase, inStateDump, stateDumpServer, stateDumpRequested,
          conn, loopMsg, received, tasks, sent, dropped, life,
          listening, clients, cmds, outbox, wire, sockets, writers, threads>>

\* ------------------------------------------------------------------------
\* Values.

\* erssiproto.WebMessage, the fields the bridge and the translator read.
WebMessage(type, server, serverTag, target, nick, text, timestamp, highlight, extra) ==
  [Type |-> type, Server |-> server, ServerTag |-> serverTag, Target |-> target,
   Nick |-> nick, Text |-> text, Timestamp |-> timestamp, IsHighlight |-> highlight,
   ExtraData |-> extra]

\* A map[string]interface{}: the keys it holds and the value of "servers".
NoExtraData == [keys |-> {}, servers |-> <<>>]
ServersData(servers) == [keys |-> {"servers"}, servers |-> servers]

\* The state dump of the spec's first scenario: one server, two channels,
\* one query.
LiberaDump ==
  ServersData(<< [tag |-> "libera",
                  channels |-> << [name |-> "#a", topic |-> "topic a"],
                                  [name |-> "#b", topic |-> ""] >>,
                  queries |-> << [nick |-> "alice"] >>] >>)

\* A smaller dump: one server with one channel.
SmallDump ==
  ServersData(<< [tag |-> "libera",
                  channels |-> << [name |-> "#Foo", topic |-> ""] >>,
                  queries |-> <<>>] >>)

\* The JSON text that carries SmallDump in the text field.
SmallDumpText == "{\"servers\":[{\"tag\":\"libera\",\"channels\":[{\"name\":\"#Foo\"}]}]}"

\* json.Unmarshal([]byte(text), &data) for the texts of the model: the
\* parsed map, or no map when the text is not a JSON object.
ParseJSONMap(text) ==
  IF text = SmallDumpText THEN [ok |-> TRUE, data |-> SmallDump]
  ELSE [ok |-> FALSE, data |-> NoExtraData]

\* weechatproto.BufferData
BufferData(buf, title, localVars) ==
  [Pointer |-> buf.Pointer, Number |-> buf.Number, Name |-> buf.Name,
   ShortName |-> buf.ShortName, Hidden |-> FALSE, Title |-> title,
   LocalVariables |-> localVars]

\* weechatproto.CreateBuffersHDataWithID
CreateBuffersHDataWithID(items, id) ==
  [ID |-> id, Type |-> "hda", Path |-> "buffer",
   Keys |-> "number:int,name:str,short_name:str,hidden:int,title:str,local_variables:str",
   Items |-> items]

\* weechatproto.CreateLinesHDataWithID
CreateLinesHDataWithID(lines, id) ==
  [ID |-> id, Type |-> "hda", Path |-> "line_data",
   Keys |-> "buffer:ptr,date:tim,date_printed:tim,displayed:int,highlight:int,tags_array:str,prefix:str,message:str",
   Items |-> lines]

\* weechatproto.CreateNicklistHData
CreateNicklistHData(nicks) ==
  [ID |-> "", Type |-> "hda", Path |-> "nicklist_item",
   Keys |-> "group:int,visible:int,name:str,color:str,prefix:str,prefix_color:str",
   Items |-> nicks]

\* weechatproto.CreateEmptyHotlistWithID
CreateEmptyHotlistWithID(id) ==
  [ID |-> id, Type |-> "hda", Path |-> "hotlist",
   Keys |-> "priority:int,date:tim,date_printed:tim,buffer:ptr,count:int",
   Items |-> <<>>]

\* weechatproto.CreateHandshakeResponse: an htb of six entries, its keys
\* in Keys and its values in Items
CreateHandshakeResponse(id, passwordHashAlgo, nonce) ==
  [ID |-> id, Type |-> "htb", Path |-> "",
   Keys |-> "password_hash_algo,password_hash_iterations,totp,nonce,compression,escape_commands",
   Items |-> <<passwordHashAlgo, "100000", "off", nonce, "off", "off">>]

NoMessage == [ID |-> "", Type |-> "", Path |-> "", Keys |-> "", Items |-> <<>>]

\* ------------------------------------------------------------------------
\* The relay wire format (pkg/weechatproto).  A byte is a number in 0..255.

\* the printable ASCII characters, in the order of their codes from 32
\* (a space stands at code 96, a character no string of the model holds)
Ascii == " !\"#$%&'()*+,-./0123456789:;<=>?@ABCDEFGHIJKLMNOPQRSTUVWXYZ[\\]^_ abcdefghijklmnopqrstuvwxyz{|}~"

\* the byte of a character
ByteOf == [ch \in {CharAt(Ascii, i) : i \in 1..Len(Ascii)} |-> 31 + Index(Ascii, ch)]

\* []byte(s)
Bytes(s) == [i \in 1..Len(s) |-> ByteOf[CharAt(s, i)]]

\* binary.Write(w, binary.BigEndian, v) of a 32-bit integer, a negative one
\* in two's complement
BigEndian32(v) ==
  LET u == IF v < 0 THEN v + 2147483647 + 1 ELSE v
      top == IF v < 0 THEN 128 ELSE 0
  IN  <<top + (u \div 16777216), (u \div 65536) % 256, (u \div 256) % 256, u % 256>>

\* fmt.Sprintf("%d", n)
RECURSIVE Decimal(_)
Decimal(n) ==
  IF n < 0 THEN "-" \o Decimal(0 - n)
  ELSE IF n < 10 THEN CharAt(DecimalDigits, n + 1)
  ELSE Decimal(n \div 10) \o CharAt(DecimalDigits, (n % 10) + 1)

\* the objects of objects.go an hda item holds
Integer(v) == [Type |-> "int", Value |-> v]
NewString(v) == [Type |-> "str", Value |-> v]
Pointer(v) == [Type |-> "ptr", Value |-> v]
Time(v) == [Type |-> "tim", Value |-> v]

boolToInt(b) == IF b THEN 1 ELSE 0

\* Pointer.Encode: byte(len(p.Value)), then the bytes of p.Value
EncodePointer(v) == <<Len(v) % 256>> \o Bytes(v)

\* Integer.Encode, String.Encode, Pointer.Encode, Time.Encode
EncodeObject(obj) ==
  CASE obj.Type = "int" -> BigEndian32(obj.Value)
    [] obj.Type = "str" -> BigEndian32(Len(obj.Value)) \o Bytes(obj.Value)
    [] obj.Type = "ptr" -> EncodePointer(obj.Value)
    [] obj.Type = "tim" -> <<Len(Decimal(obj.Value)) % 256>> \o Bytes(Decimal(obj.Value))

\* the HDataItem CreateBuffersHDataWithID makes of a BufferData and
\* CreateLinesHDataWithID of a LineData
HDataItem(path, item) ==
  [Pointers |-> <<item.Pointer>>,
   Objects |->
     IF path = "buffer"
     THEN ("number" :> Integer(item.Number)) @@ ("name" :> NewString(item.Name))
            @@ ("short_name" :> NewString(item.ShortName))
            @@ ("hidden" :> Integer(boolToInt(item.Hidden)))
            @@ ("title" :> NewString(item.Title))
            @@ ("local_variables" :> NewString(item.LocalVariables))
     ELSE ("buffer" :> Pointer(item.BufferPtr)) @@ ("date" :> Time(item.Date))
            @@ ("date_printed" :> Time(item.DatePrinted))
            @@ ("displayed" :> Integer(boolToInt(item.Displayed)))
            @@ ("highlight" :> Integer(boolToInt(item.Highlight)))
            @@ ("tags_array" :> NewString(item.Tags))
            @@ ("prefix" :> NewString(item.Prefix))
            @@ ("message" :> NewString(item.Message))]

\* the concatenation of a sequence of byte sequences
RECURSIVE Flatten(_)
Flatten(seqs) == IF seqs = <<>> THEN <<>> ELSE Head(seqs) \o Flatten(Tail(seqs))

\* the elements of a set in one order
RECURSIVE SeqOf(_)
SeqOf(S) ==
  IF S = {} THEN <<>>
  ELSE LET x == CHOOSE y \in S : TRUE IN <<x>> \o SeqOf(S \ {x})

\* the orders in which `for _, obj := range item.Objects` can meet the
\* objects of a map: every order of its keys
RangeOrders(objects) ==
  LET base == SeqOf(DOMAIN objects) IN
  {[i \in 1..Len(base) |-> base[f[i]]] : f \in Permutations(1..Len(base))}

\* HData.Encode, one item: its pointers, then its objects as ranged over
EncodeItem(hitem, order) ==
  Flatten([i \in 1..Len(hitem.Pointers) |-> EncodePointer(hitem.Pointers[i])])
    \o Flatten([i \in 1..Len(order) |-> EncodeObject(hitem.Objects[order[i]])])

\* HData.Encode: orders[n] is the order the objects of item n are ranged over
EncodeHData(msg, orders) ==
  EncodeObject(NewString(msg.Path)) \o EncodeObject(NewString(msg.Keys))
    \o BigEndian32(Len(msg.Items))
    \o Flatten([n \in 1..Len(msg.Items) |->
                  EncodeItem(HDataItem(msg.Path, msg.Items[n]), orders[n])])

\* Encoder.EncodeMessage of a message of one hda: the length, the
\* compression byte and the body
EncodeMessage(msg, orders) ==
  LET body == EncodeObject(NewString(msg.ID)) \o Bytes(msg.Type)
                \o EncodeHData(msg, orders)
  IN  BigEndian32(4 + 1 + Len(body)) \o <<0>> \o body

\* ------------------------------------------------------------------------
\* The translator.  An operation maps a record T to the record after it:
\*   buffers, nextBufferNum  the translator's fields;
\*   clock                   the clock value read last;
\*   ticks                   by how much the clock advances before each of
\*                           the reads of the clock still to come;
\*   ret                     the key of the BufferState the last create or
\*                           ensure call returned;
\*   out                     the message the operation returns.

TickSeqs(n) == [1..n -> {0, 1}]

RECURSIVE SumSeq(_)
SumSeq(s) == IF s = <<>> THEN 0 ELSE Head(s) + SumSeq(Tail(s))

Translator(ticks) ==
  [buffers |-> buffers, nextBufferNum |-> nextBufferNum, clock |-> clock,
   ticks |-> ticks, ret |-> "", out |-> NoMessage]

\* time.Now().UnixNano() at the next read of the clock
NowNano(T) == T.clock + Head(T.ticks)

\* the record after one read of the clock
AfterClockRead(T) == [T EXCEPT !.clock = NowNano(T), !.ticks = Tail(T.ticks)]

\* Translator.generatePointer: fmt.Sprintf("0x%x", time.Now().UnixNano())
generatePointer(T) == "0x" \o Hex(NowNano(T))

\* a mutant of createBufferWithTopic's key: no lowercasing
createKeyNoLower(serverTag, target) == getBufferKeyNoLower(serverTag, target)

\* the key createBufferWithTopic files a buffer under
createKey(serverTag, target) == getBufferKey(serverTag, target)

\* Translator.createBufferWithTopic
createBufferWithTopic(T, serverTag, target, topic) ==
  LET bufferKey == createKey(serverTag, target) IN
  IF bufferKey \in DOMAIN T.buffers
  THEN [T EXCEPT !.ret = bufferKey,
                 !.buffers[bufferKey].Title = IF topic # "" THEN topic ELSE @]
  ELSE LET num == T.nextBufferNum
           buffer == [Pointer |-> generatePointer(T), Number |-> num,
                      ServerTag |-> serverTag,
                      Name |-> serverTag \o "." \o target,
                      ShortName |-> target, Title |-> topic,
                      Lines |-> <<>>, Nicks |-> <<>>, IsServer |-> FALSE]
       IN  [AfterClockRead(T) EXCEPT !.nextBufferNum = num + 1,
                                     !.buffers = (bufferKey :> buffer) @@ T.buffers,
                                     !.ret = bufferKey]

\* Translator.createBuffer
createBuffer(T, serverTag, target) == createBufferWithTopic(T, serverTag, target, "")

\* Translator.EnsureBuffer
EnsureBuffer(T, serverTag, target) == createBufferWithTopic(T, serverTag, target, "")

\* Translator.EnsureServerBuffer
EnsureServerBuffer(T, serverTag) ==
  LET bufferKey == serverTag IN
  IF bufferKey \in DOMAIN T.buffers
  THEN [T EXCEPT !.ret = bufferKey]
  ELSE LET num == T.nextBufferNum
           buffer == [Pointer |-> generatePointer(T), Number |-> num,
                      ServerTag |-> serverTag, Name |-> serverTag,
                      ShortName |-> serverTag,
                      Title |-> "Server " \o serverTag,
                      Lines |-> <<>>, Nicks |-> <<>>, IsServer |-> TRUE]
       IN  [AfterClockRead(T) EXCEPT !.nextBufferNum = num + 1,
                                     !.buffers = (bufferKey :> buffer) @@ T.buffers,
                                     !.ret = bufferKey]

\* Translator.generateTags
generateTags(msg) ==
  "notify_message"
    \o (IF msg.IsHighlight THEN ",notify_highlight" ELSE "")
    \o (IF msg.Nick # "" THEN ",nick_" \o msg.Nick ELSE "")

\* a mutant of trimLines: the first MaxLines lines are kept
trimLinesKeepOldest(lines) ==
  IF Len(lines) > MaxLines THEN SubSeq(lines, 1, MaxLines) ELSE lines

\* ErssiMessageToLine: buffer.Lines[len(buffer.Lines)-500:] when longer
\* than 500
trimLines(lines) ==
  IF Len(lines) > MaxLines
  THEN SubSeq(lines, Len(lines) - MaxLines + 1, Len(lines))
  ELSE lines

\* Translator.ErssiMessageToLine.  DatePrinted, time.Now().Unix(), is taken
\* in the tick of the line's pointer: the clock of the model moves by
\* nanoseconds, which leave the second unchanged.
ErssiMessageToLine(T, msg) ==
  LET bufferKey == getBufferKey(msg.ServerTag, msg.Target)
      T1 == IF bufferKey \in DOMAIN T.buffers
            THEN [T EXCEPT !.ret = bufferKey]
            ELSE createBuffer(T, msg.ServerTag, msg.Target)
      buffer == T1.buffers[T1.ret]
      line == [Pointer |-> generatePointer(T1),
               BufferPtr |-> buffer.Pointer,
               Date |-> msg.Timestamp,
               DatePrinted |-> NowNano(T1) \div NanosPerSecond,
               Displayed |-> TRUE,
               Highlight |-> msg.IsHighlight,
               Tags |-> generateTags(msg),
               Prefix |-> msg.Nick,
               Message |-> msg.Text]
  IN  [AfterClockRead(T1) EXCEPT
         !.buffers[T1.ret].Lines = trimLines(Append(buffer.Lines, line)),
         !.out = CreateLinesHDataWithID(<<line>>, "")]

\* Translator.getPrefixColor
getPrefixColor(prefix) ==
  CASE prefix = "@" -> "lightgreen"
    [] prefix = "+" -> "yellow"
    [] prefix = "%" -> "lightmagenta"
    [] OTHER -> "default"

\* ErssiNicklistToWeeChat's loop: one NickData per NickInfo, each with a
\* pointer of its own, gathered in T.out.Items
RECURSIVE convertNicks(_, _)
convertNicks(T, nicks) ==
  IF nicks = <<>> THEN T
  ELSE LET nick == Head(nicks)
           nickData == [Pointer |-> generatePointer(T), IsGroup |-> FALSE,
                        Visible |-> TRUE, Name |-> nick.Nick,
                        Color |-> "default", Prefix |-> nick.Prefix,
                        PrefixColor |-> getPrefixColor(nick.Prefix)]
       IN  convertNicks([AfterClockRead(T) EXCEPT
                           !.out.Items = Append(@, nickData)],
                        Tail(nicks))

\* a mutant of ErssiNicklistToWeeChat: the nicks of the event are added to
\* the buffer's snapshot
ErssiNicklistToWeeChatMerge(T, msg, nicks) ==
  LET bufferKey == getBufferKey(msg.ServerTag, msg.Target)
      T1 == IF bufferKey \in DOMAIN T.buffers
            THEN [T EXCEPT !.ret = bufferKey]
            ELSE createBuffer(T, msg.ServerTag, msg.Target)
      T2 == convertNicks([T1 EXCEPT !.out = CreateNicklistHData(<<>>)], nicks)
  IN  [T2 EXCEPT !.buffers[T1.ret].Nicks = @ \o T2.out.Items]

\* Translator.ErssiNicklistToWeeChat
ErssiNicklistToWeeChat(T, msg, nicks) ==
  LET bufferKey == getBufferKey(msg.ServerTag, msg.Target)
      T1 == IF bufferKey \in DOMAIN T.buffers
            THEN [T EXCEPT !.ret = bufferKey]
            ELSE createBuffer(T, msg.ServerTag, msg.Target)
      T2 == convertNicks([T1 EXCEPT !.out = CreateNicklistHData(<<>>)], nicks)
  IN  [T2 EXCEPT !.buffers[T1.ret].Nicks = T2.out.Items]

\* ErssiToBufferList, the channels of one server
RECURSIVE addChannels(_, _, _)
addChannels(T, serverTag, channels) ==
  IF channels = <<>> THEN T
  ELSE LET channel == Head(channels)
           T1 == createBufferWithTopic(T, serverTag, channel.name, channel.topic)
           buffer == T1.buffers[T1.ret]
       IN  IF channel.name = ""
           THEN addChannels(T, serverTag, Tail(channels))
           ELSE addChannels(
                  [T1 EXCEPT !.out.Items =
                     Append(@, BufferData(buffer, buffer.Title, "type=channel"))],
                  serverTag, Tail(channels))

\* ErssiToBufferList, the queries of one server
RECURSIVE addQueries(_, _, _)
addQueries(T, serverTag, queries) ==
  IF queries = <<>> THEN T
  ELSE LET nick == Head(queries).nick
           T1 == createBufferWithTopic(T, serverTag, nick, "")
           buffer == T1.buffers[T1.ret]
       IN  IF nick = ""
           THEN addQueries(T, serverTag, Tail(queries))
           ELSE addQueries(
                  [T1 EXCEPT !.out.Items =
                     Append(@, BufferData(buffer, "Private chat with " \o nick,
                                          "type=private"))],
                  serverTag, Tail(queries))

\* ErssiToBufferList, the servers in declared order
RECURSIVE addServers(_, _)
addServers(T, servers) ==
  IF servers = <<>> THEN T
  ELSE LET server == Head(servers) IN
       IF server.tag = ""
       THEN addServers(T, Tail(servers))
       ELSE addServers(
              addQueries(addChannels(T, server.tag, server.channels),
                         server.tag, server.queries),
              Tail(servers))

\* Translator.ErssiToBufferList
ErssiToBufferList(T, stateDump) ==
  LET parsedData ==
        IF stateDump.ExtraData.keys # {} THEN stateDump.ExtraData
        ELSE IF stateDump.Text # "" /\ ParseJSONMap(stateDump.Text).ok
             THEN ParseJSONMap(stateDump.Text).data
             ELSE NoExtraData
      corePtr == generatePointer(T)
      core == [Pointer |-> corePtr, Number |-> 1, ServerTag |-> "",
               Name |-> "core.weechat", ShortName |-> "weechat", Title |-> "",
               Lines |-> <<>>, Nicks |-> <<>>, IsServer |-> FALSE]
      T1 == [AfterClockRead(T) EXCEPT
               !.buffers = ("core" :> core) @@ T.buffers,
               !.out = CreateBuffersHDataWithID(
                         << BufferData(core, "WeeChat (via erssi bridge)",
                                       "type=server") >>, "")]
  IN  IF "servers" \in parsedData.keys
      THEN addServers(T1, parsedData.servers)
      ELSE T1

\* The number of reads of the clock ErssiToBufferList can make on a dump.
RECURSIVE DumpSize(_)
DumpSize(servers) ==
  IF servers = <<>> THEN 0
  ELSE Len(Head(servers).channels) + Len(Head(servers).queries)
         + DumpSize(Tail(servers))

\* sort.Slice by Number over the values of the map: every order of the
\* keys with the numbers ascending (equal numbers in either order).
RECURSIVE SortedByNumber(_, _)
SortedByNumber(bufs, keys) ==
  IF keys = {} THEN {<<>>}
  ELSE LET firsts == {k \in keys :
                        \A j \in keys : bufs[k].Number <= bufs[j].Number}
       IN  UNION {{<<k>> \o s : s \in SortedByNumber(bufs, keys \ {k})} :
                  k \in firsts}

\* GetAllBuffers / GetBufferOpenedEvent: local_variables of a buffer
localVars(buf) ==
  IF buf.IsServer THEN "type=server" ELSE "type=channel,server=" \o buf.ServerTag

\* Translator.GetAllBuffers: the replies it can return
GetAllBuffers(bufs, msgID) ==
  {CreateBuffersHDataWithID(
     [i \in 1..Len(order) |->
        BufferData(bufs[order[i]], bufs[order[i]].Title, localVars(bufs[order[i]]))],
     msgID) : order \in SortedByNumber(bufs, DOMAIN bufs)}

\* Translator.GetEmptyHotlist
GetEmptyHotlist(msgID) == CreateEmptyHotlistWithID(msgID)

\* GetBufferLines: buf.Lines[start:], the last count lines
lastLines(lines, count) ==
  IF Len(lines) > count THEN SubSeq(lines, Len(lines) - count + 1, Len(lines))
  ELSE lines

\* Translator.GetBufferLines: the replies it can return (the map is ranged
\* over until a buffer with the pointer is met)
GetBufferLines(bufs, bufferPtr, count, msgID) ==
  IF \E k \in DOMAIN bufs : bufs[k].Pointer = bufferPtr
  THEN {CreateLinesHDataWithID(lastLines(bufs[k].Lines, count), msgID) :
          k \in {j \in DOMAIN bufs : bufs[j].Pointer = bufferPtr}}
  ELSE {CreateLinesHDataWithID(<<>>, msgID)}

\* strings.Join
RECURSIVE Join(_, _)
Join(elems, sep) ==
  IF elems = <<>> THEN ""
  ELSE IF Len(elems) = 1 THEN elems[1]
  ELSE elems[1] \o sep \o Join(Tail(elems), sep)

\* strings.SplitN(s, sep, 2)
SplitN2(s, sep) ==
  IF Index(s, sep) = 0 THEN <<s>>
  ELSE <<SubSeq(s, 1, Index(s, sep) - 1), SubSeq(s, Index(s, sep) + Len(sep), Len(s))>>

\* Translator.ParseInputCommand: the pointer and the text of an input command
ParseInputCommand(args) ==
  IF Len(args) < 2 THEN [err |-> TRUE, bufferPtr |-> "", text |-> ""]
  ELSE [err |-> FALSE, bufferPtr |-> args[1], text |-> Join(Tail(args), " ")]

\* a mutant of InputToErssiCommand: no error for a pointer of no buffer
InputToErssiCommandNoCheck(bufs, bufferPtr, text) ==
  {[err |-> FALSE,
    msg |-> [Type |-> "message", Server |-> "", ServerTag |-> "", Target |-> "",
             Nick |-> "", Text |-> text, Timestamp |-> 0, IsHighlight |-> FALSE,
             ExtraData |-> [keys |-> {}, servers |-> <<>>]]]}

\* Translator.InputToErssiCommand: the results it can return (the map is
\* ranged over until a buffer with the pointer is met; its key is split at
\* the first "."); an empty serverTag is the error "buffer not found"
InputToErssiCommand(bufs, bufferPtr, text) ==
  LET found == {k \in DOMAIN bufs : bufs[k].Pointer = bufferPtr}
      result(serverTag, target) ==
        [err |-> serverTag = "",
         msg |-> [Type |-> "message", Server |-> "", ServerTag |-> serverTag,
                  Target |-> target, Nick |-> "", Text |-> text, Timestamp |-> 0,
                  IsHighlight |-> FALSE,
                  ExtraData |-> [keys |-> {}, servers |-> <<>>]]]
  IN  IF found = {} THEN {result("", "")}
      ELSE {IF Len(SplitN2(k, ".")) = 2
            THEN result(SplitN2(k, ".")[1], SplitN2(k, ".")[2])
            ELSE result("", "") : k \in found}

\* Translator.GetBufferInfo: the (serverTag, target) pairs it can return
GetBufferInfo(bufs, bufferPtr) ==
  LET found == {k \in DOMAIN bufs : bufs[k].Pointer = bufferPtr} IN
  IF found = {} THEN {<<"", "">>}
  ELSE {IF Len(SplitN2(k, ".")) = 2
        THEN <<SplitN2(k, ".")[1], SplitN2(k, ".")[2]>>
        ELSE <<bufs[k].ServerTag, bufs[k].ShortName>> : k \in found}

\* Translator.ParseHDataCommand: the path and the params of an hdata command
ParseHDataCommand(args) ==
  IF Len(args) < 1 THEN [err |-> TRUE, path |-> "", params |-> ""]
  ELSE [err |-> FALSE, path |-> args[1],
        params |-> IF Len(args) > 1 THEN args[2] ELSE ""]

\* ------------------------------------------------------------------------
\* Inputs of the translator's operations.

ServerTags == {"libera"}
Targets == {"#Foo", "#foo", "#FOO"}

\* the text of a nicklist event, and json.Unmarshal of it into
\* []erssiproto.NickInfo
NickListText == "[{\"nick\":\"alice\",\"prefix\":\"@\"},{\"nick\":\"bob\"}]"
ParseNickList(text) ==
  CASE text = NickListText ->
         [ok |-> TRUE,
          nicks |-> << [Nick |-> "alice", Prefix |-> "@"],
                       [Nick |-> "bob", Prefix |-> ""] >>]
    [] text = "[]" -> [ok |-> TRUE, nicks |-> <<>>]
    [] OTHER -> [ok |-> FALSE, nicks |-> <<>>]

NickListTexts == {"[]", NickListText}

\* state_dump messages: the dump in extra_data, in text, or in neither
StateDumps ==
  { WebMessage("state_dump", "", "libera", "", "", "", 0, FALSE, SmallDump),
    WebMessage("state_dump", "", "libera", "", "", SmallDumpText, 0, FALSE, NoExtraData),
    WebMessage("state_dump", "", "libera", "", "", "", 0, FALSE, NoExtraData) }

\* a message event to (serverTag, target) with timestamp n
MessageEvent(serverTag, target, n) ==
  WebMessage("message", "", serverTag, target, "bob", "hi", n, FALSE, NoExtraData)

\* a message event to (serverTag, target) whose text names the target
TargetedEvent(serverTag, target, n) ==
  WebMessage("message", "", serverTag, target, "bob", "hello " \o target, n, FALSE,
             NoExtraData)

\* a nicklist event for (serverTag, target)
NicklistEvent(serverTag, target, text) ==
  WebMessage("nicklist", "", serverTag, target, "", text, 0, FALSE, NoExtraData)

\* ------------------------------------------------------------------------
\* Calls of the translator's exported operations.

\* the identity of the buffer an event is for: its server_tag and its
\* target in lower case
EventKey(m) == m.ServerTag \o "." \o ToLower(m.Target)

LogOf(log, key) == IF key \in DOMAIN log THEN log[key] ELSE <<>>

RECURSIVE TotalLen(_, _)
TotalLen(log, keys) ==
  IF keys = {} THEN 0
  ELSE LET k == CHOOSE x \in keys : TRUE
       IN  Len(log[k]) + TotalLen(log, keys \ {k})

\* lines lineLog so far, over all buffers
TotalLines == TotalLen(lineLog, DOMAIN lineLog)

\* the operation's effect on the translator's fields and on the clock;
\* the ticks the operation did not use are zero (the clock is not read)
Commit(T) ==
  /\ SumSeq(T.ticks) = 0
  /\ buffers' = T.buffers
  /\ nextBufferNum' = T.nextBufferNum
  /\ clock' = T.clock

CallErssiToBufferList(stateDump, ticks) ==
  /\ Commit(ErssiToBufferList(Translator(ticks), stateDump))
  /\ UNCHANGED <<touched, lineLog, ingested>>

CallEnsureServerBuffer(serverTag, ticks) ==
  /\ Commit(EnsureServerBuffer(Translator(ticks), serverTag))
  /\ UNCHANGED <<touched, lineLog, ingested>>

CallEnsureBuffer(serverTag, target, ticks) ==
  /\ Commit(EnsureBuffer(Translator(ticks), serverTag, target))
  /\ UNCHANGED <<touched, lineLog, ingested>>

CallErssiMessageToLine(m, ticks) ==
  LET T == ErssiMessageToLine(Translator(ticks), m) IN
  /\ Commit(T)
  /\ UNCHANGED <<touched, ingested>>
  /\ lineLog' = (EventKey(m) :> Append(LogOf(lineLog, EventKey(m)), T.out.Items[1]))
                   @@ lineLog

CallErssiNicklistToWeeChat(m, nicks, ticks) ==
  /\ Commit(ErssiNicklistToWeeChat(Translator(ticks), m, nicks))
  /\ UNCHANGED <<touched, lineLog, ingested>>

\* every read of the clock the operation made moved the clock on
AllAdvance(ticks, T) == SumSeq(ticks) = Len(ticks) - Len(T.ticks)

\* ------------------------------------------------------------------------
\* The upstream client (internal/erssi/client.go) and its frames.

NoWebMessage == WebMessage("", "", "", "", "", "", 0, FALSE, NoExtraData)

\* the JSON object of one upstream frame, by the names erssi gives its fields
Frame(type, server, serverTag, channel, target, nick, text, timestamp, extra) ==
  [type |-> type, server |-> server, server_tag |-> serverTag,
   channel |-> channel, target |-> target, nick |-> nick, text |-> text,
   timestamp |-> timestamp, is_highlight |-> FALSE, extra_data |-> extra]

\* a mutant of UnmarshalJSON: "channel" and "server", when present, replace
\* target and server_tag
UnmarshalJSONAliasFirst(f) ==
  WebMessage(f.type, f.server,
             IF f.server # "" THEN f.server ELSE f.server_tag,
             IF f.channel # "" THEN f.channel ELSE f.target,
             f.nick, f.text, f.timestamp, f.is_highlight, f.extra_data)

\* WebMessage.UnmarshalJSON: "channel" stands in for an empty target,
\* "server" for an empty server_tag
UnmarshalJSON(f) ==
  LET m == WebMessage(f.type, f.server, f.server_tag, f.target, f.nick, f.text,
                      f.timestamp, f.is_highlight, f.extra_data)
      m1 == IF f.channel # "" /\ m.Target = "" THEN [m EXCEPT !.Target = f.channel]
            ELSE m
  IN  IF m1.Server # "" /\ m1.ServerTag = "" THEN [m1 EXCEPT !.ServerTag = m1.Server]
      ELSE m1

\* the frames the upstream sends in the model
Frames ==
  { Frame("state_dump", "libera", "", "", "", "", "", 0, LiberaDump),
    Frame("channel_join", "libera", "", "#a", "", "carol", "", 1700000001, NoExtraData),
    Frame("channel_part", "", "libera", "", "#a", "carol", "bye", 1700000002, NoExtraData),
    Frame("user_quit", "", "libera", "", "", "carol", "", 1700000003, NoExtraData),
    Frame("topic", "", "libera", "", "#a", "", "topic a", 1700000004, NoExtraData),
    Frame("message", "", "libera", "", "#A", "bob", "hi", 1700000005, NoExtraData),
    Frame("nicklist", "", "libera", "", "#a", "", NickListText, 0, NoExtraData),
    Frame("activity_update", "", "libera", "", "#a", "", "", 0, NoExtraData) }

\* Client.RequestStateDump's message
SyncServerRequest == WebMessage("sync_server", "*", "", "", "", "", 0, FALSE, NoExtraData)

\* a mutant of NicklistRequest: the channel is left out
NicklistRequestNoTarget(serverTag, channel) ==
  WebMessage("nicklist", "", serverTag, "", "", "", 0, FALSE, NoExtraData)

\* Client.RequestNicklist's message
NicklistRequest(serverTag, channel) ==
  WebMessage("nicklist", "", serverTag, channel, "", "", 0, FALSE, NoExtraData)

\* Client.SendMessage: whether the write can succeed.  With no connection
\* it fails ("not connected"); on a connection whose transport has failed
\* WriteMessage returns an error or not
WriteOutcomes == IF conn = "nil" THEN {FALSE}
                 ELSE IF conn = "open" THEN {TRUE}
                 ELSE {TRUE, FALSE}

\* Client.SendMessage
SendMessage(m, ok) == sent' = IF ok THEN Append(sent, m) ELSE sent

\* a goroutine "go c.onMessage(&msgCopy)":
\*   msg    the copy it was given;
\*   pc     where it stands in handleErssiMessage;
\*   after  where it goes after the broadcast it is about to make;
\*   out    the weechatproto.Message it is about to broadcast;
\*   inStateDump  handleChannelJoin's local variable;
\*   seen   history: the message it read at its last step;
\*   parsed history: how many frames the read loop had parsed by then;
\*   afterDump  history: when it took its first step, the handler of a
\*          state_dump of its server had run to its end;
\*   afterEnd   history: when it took its first step, so had the handler
\*          of another event of its server (neither state_dump nor
\*          channel_join), itself begun after the state_dump's;
\*   made   history: the key of the buffer its translator call created;
\*   cast   history: the messages it gave to BroadcastMessage;
\*   failed history: the clients a SendMessage of its broadcasts failed on
\*          (SpecBroadcast);
\*   asked  history: the nick-list requests it made, and whether each
\*          was written.
Task(m) == [msg |-> m, pc |-> "start", after |-> "done", out |-> NoMessage,
            inStateDump |-> FALSE, seen |-> NoWebMessage, parsed |-> 0,
            afterDump |-> FALSE, afterEnd |-> FALSE,
            made |-> "", cast |-> <<>>, failed |-> {}, asked |-> <<>>]

\* a mutant of HandlerMsg: the handler is given &msg, the loop's variable
HandlerMsgShared(i) == loopMsg

\* the message the handler of task i reads through its pointer: msgCopy
HandlerMsg(i) == tasks[i].msg

\* Client.Connect, the dial succeeds: the connection is stored and the read
\* loop started; Bridge.Start returns nil
ConnectOK ==
  /\ phase = "starting"
  /\ conn' = "open"
  /\ phase' = "running"
  /\ life' = [life EXCEPT !.loops = @ + 1]
  /\ UNCHANGED <<storeVars, inStateDump, stateDumpServer, stateDumpRequested,
                 loopMsg, received, tasks, sent, downVars, dropped, threads>>

\* Client.Connect, the dial fails: Bridge.Start closes the server and
\* returns the error
ConnectFail ==
  /\ phase = "starting"
  /\ phase' = "failed"
  /\ listening' = FALSE
  /\ life' = [life EXCEPT !.serverCloses = @ + 1]
  /\ UNCHANGED <<storeVars, inStateDump, stateDumpServer, stateDumpRequested,
                 conn, loopMsg, received, tasks, sent, dropped,
                 clients, cmds, outbox, wireVars, threads>>

\* readLoop, one iteration that reads a frame: the frame is parsed into msg
\* and a goroutine started on a copy of msg
ReadFrameOf(frames, max) ==
  /\ conn = "open"
  /\ Len(received) < max
  /\ \E f \in frames :
       /\ loopMsg' = UnmarshalJSON(f)
       /\ received' = Append(received, loopMsg')
       /\ tasks' = Append(tasks, Task(loopMsg'))
  /\ UNCHANGED <<storeVars, bridgeVars, conn, sent, downVars, dropped, life, threads>>

ReadFrame == ReadFrameOf(Frames, MaxFrames)

\* a mutant of ReadError: the read loop dials again and goes on
ReadErrorRedials ==
  /\ conn = "open"
  /\ conn' = "open"
  /\ life' = [life EXCEPT !.disconnects = @ + 1, !.loopEnds = @ + 1, !.loops = @ + 1]
  /\ UNCHANGED <<storeVars, bridgeVars, loopMsg, received, tasks, sent, downVars, dropped,
                 threads>>

\* readLoop, ReadMessage returns an error: the loop ends (the disconnect
\* handler only logs)
ReadError ==
  /\ conn = "open"
  /\ conn' = "broken"
  /\ life' = [life EXCEPT !.disconnects = @ + 1, !.loopEnds = @ + 1]
  /\ UNCHANGED <<storeVars, bridgeVars, loopMsg, received, tasks, sent, downVars, dropped,
                 threads>>

\* ------------------------------------------------------------------------
\* crypto.go: the sizes of the GCM IV and of the GCM tag
ivSize == 12
tagSize == 16

\* a frame as conn.ReadMessage returns it:
\*   binary     messageType is websocket.BinaryMessage;
\*   size       len(data);
\*   authentic  gcm.Open accepts the tag for the client's key;
\*   valid      the payload (the plaintext of a binary frame, the data of
\*              a text frame) is the JSON of an object;
\*   frame      that object.
WireFrame(binary, size, authentic, valid, frame) ==
  [binary |-> binary, size |-> size, authentic |-> authentic, valid |-> valid,
   frame |-> frame]

\* a message event as erssi sends it
MessageFrame(nick, text) ==
  Frame("message", "", "libera", "", "#a", nick, text, 1700000005, NoExtraData)

\* the frames the upstream sends in SpecReadLoop: a text frame and an
\* encrypted one the client's key opens; a binary frame of 27 bytes; one
\* whose tag the key does not open, forged around a message of mallory;
\* an encrypted frame and a text frame whose payloads are not JSON
WireFrames ==
  { WireFrame(FALSE, 64, FALSE, TRUE, MessageFrame("bob", "hi")),
    WireFrame(TRUE, 92, TRUE, TRUE, MessageFrame("bob", "hello")),
    WireFrame(TRUE, 27, FALSE, TRUE, MessageFrame("mallory", "short")),
    WireFrame(TRUE, 92, FALSE, TRUE, MessageFrame("mallory", "forged")),
    WireFrame(TRUE, 92, TRUE, FALSE, MessageFrame("", "")),
    WireFrame(FALSE, 64, FALSE, FALSE, MessageFrame("", "")) }

\* a mutant of decryptMessage: neither the size nor the tag is checked
decryptMessageUnchecked(encrypted) == [err |-> FALSE, plaintext |-> encrypted]

\* decryptMessage: an error for less than an IV and a tag, and when
\* gcm.Open refuses the tag; else the plaintext
decryptMessage(encrypted) ==
  IF encrypted.size < ivSize + tagSize THEN [err |-> TRUE, plaintext |-> encrypted]
  ELSE IF ~encrypted.authentic THEN [err |-> TRUE, plaintext |-> encrypted]
  ELSE [err |-> FALSE,
        plaintext |-> [encrypted EXCEPT !.binary = FALSE,
                                        !.size = @ - (ivSize + tagSize)]]

\* readLoop, one iteration with an encryption key set (cfg.Password is not
\* empty): a binary frame is decrypted, the data parsed; an error of either
\* is logged and the loop continues with the next frame; else a goroutine
\* is started on a copy of msg
ReadWireFrame ==
  /\ conn = "open"
  /\ Len(received) + Len(dropped) < MaxWireFrames
  /\ \E w \in WireFrames :
       LET d == IF w.binary THEN decryptMessage(w)
                ELSE [err |-> FALSE, plaintext |-> w]
       IN  IF d.err \/ ~d.plaintext.valid
           THEN /\ dropped' = Append(dropped, [frame |-> w, after |-> Len(received)])
                /\ UNCHANGED <<loopMsg, received, tasks>>
           ELSE /\ loopMsg' = UnmarshalJSON(d.plaintext.frame)
                /\ received' = Append(received, loopMsg')
                /\ tasks' = Append(tasks, Task(loopMsg'))
                /\ UNCHANGED dropped
  /\ UNCHANGED <<storeVars, bridgeVars, conn, sent, life, downVars, threads>>

\* The downstream server (the weechat package).

Clients == {"c1", "c2"}

\* the correlation id each client gives its requests
ClientID == [c \in Clients |-> IF c = "c1" THEN "42" ELSE "43"]

\* the hdata path of a buffer list request
BuffersPath == "buffer:gui_buffers(*)"

\* the command lines a client sends: each command with the client's
\* correlation id or with none; line requests for the buffer created first
\* (pointer 0x2), with and without a keys argument
RequestLines(c) ==
  LET id == "(" \o ClientID[c] \o ") " IN
  { id \o "handshake password_hash_algo=plain",
    "init password=secret",
    id \o "hdata buffer:gui_buffers(*) number,name",
    "hdata hotlist:gui_hotlist(*)",
    id \o "hdata buffer:0x2/lines/last_line(-1)/data",
    "hdata buffer:0x2/lines/last_line(0)/data date,prefix,message",
    id \o "hdata buffer:0x2/lines (-1)" }

\* Server.handleCommand, the parse of a line "(id) command arguments":
\* err for a malformed message ID, cmd = "" for an empty command
parseCommand(line) ==
  LET hasID == HasPrefix(line, "(")
      endIdx == Index(line, ")")
      msgID == IF hasID THEN SubSeq(line, 2, endIdx - 1) ELSE ""
      rest == IF hasID THEN TrimSpace(SubSeq(line, endIdx + 1, Len(line))) ELSE line
      parts == Fields(rest)
  IN  IF hasID /\ endIdx = 0
      THEN [err |-> TRUE, id |-> "", cmd |-> "", args |-> <<>>]
      ELSE IF parts = <<>>
      THEN [err |-> FALSE, id |-> msgID, cmd |-> "", args |-> <<>>]
      ELSE [err |-> FALSE, id |-> msgID, cmd |-> parts[1], args |-> Tail(parts)]

\* the pointer no buffer of the model has
UnknownPointer == "0xff"

\* the input, sync, desync and nicklist lines a client sends: input for the
\* buffers created first and second (pointers 0x2 and 0x3) and for a
\* pointer of no buffer, one text with two spaces in it
ForwardLines ==
  { "input 0x2 Hello", "input 0x3 a  b", "input " \o UnknownPointer \o " Hello",
    "sync", "desync", "nicklist 0x2" }

\* the lines that end a session: a message id that is never closed, and
\* quit with and without an id
EndLines == {"(42 init password=secret", "quit", "(7) quit"}

\* parseCommand of the command lines of the model, computed once
CommandMemo ==
  [line \in UNION {RequestLines(c) : c \in Clients} \cup ForwardLines
            \cup EndLines |->
     parseCommand(line)]

\* Server.handleCommand, the parse
handleCommand(line) ==
  IF line \in DOMAIN CommandMemo THEN CommandMemo[line] ELSE parseCommand(line)

\* the lines of client c that handleCommand's switch takes to command cmd
LinesOf(c, cmd) == {line \in RequestLines(c) : handleCommand(line).cmd = cmd}

\* rand.Read(nonceBytes), in hex
Nonces == {"000102030405060708090a0b0c0d0e0f"}

\* the commands the server has read: those handed to goroutines and the
\* handshakes answered
CommandsRead ==
  Len(cmds) + Cardinality({<<c, n>> \in Clients \X (1..MaxCmds) :
                             n \in DOMAIN outbox[c] /\ outbox[c][n].Type = "htb"})

\* a goroutine "go s.onCommand(client, msgID, cmd, args)":
\*   pc              where it stands in handleWeeChatCommand;
\*   needsStateDump  handleWeeChatInit's local variable;
\*   err             whether the upstream request it made returned an error;
\*   out             the reply it is about to send to its client.
Cmd(c, line) ==
  [client |-> c, line |-> line, id |-> handleCommand(line).id,
   cmd |-> handleCommand(line).cmd, args |-> handleCommand(line).args,
   pc |-> "start", needsStateDump |-> FALSE, err |-> FALSE, out |-> NoMessage,
   up |-> NoWebMessage]

\* Server.Start from Bridge.Start, which holds b.mu until it returns
StartServer ==
  /\ phase = "new"
  /\ phase' = "starting"
  /\ listening' = TRUE
  /\ life' = [life EXCEPT !.accepts = @ + 1]
  /\ UNCHANGED <<storeVars, inStateDump, stateDumpServer, stateDumpRequested,
                 conn, loopMsg, received, tasks, sent, dropped,
                 clients, cmds, outbox, wireVars, threads>>

\* a mutant of Stop: the upstream connection is left as it is
StopKeepsUpstream ==
  /\ phase = "running"
  /\ phase' = "stopped"
  /\ listening' = FALSE
  /\ life' = [life EXCEPT !.serverCloses = @ + 1]
  /\ UNCHANGED <<storeVars, inStateDump, stateDumpServer, stateDumpRequested, conn,
                 loopMsg, received, tasks, sent, clients, cmds, outbox, wireVars, dropped,
                 threads>>

\* Bridge.Stop: the upstream connection and the listener are closed
Stop ==
  /\ phase = "running"
  /\ phase' = "stopped"
  /\ conn' = "nil"
  /\ listening' = FALSE
  /\ life' = [life EXCEPT !.serverCloses = @ + 1]
  /\ UNCHANGED <<storeVars, inStateDump, stateDumpServer, stateDumpRequested,
                 loopMsg, received, tasks, sent, clients, cmds, outbox, wireVars, dropped,
                 threads>>

\* readLoop after Client.Close: the loop finds c.conn nil and returns, or
\* its ReadMessage on the closed connection returns an error, the
\* disconnect handler is started and the loop returns; the deferred
\* function closes c.done
ReadClosed ==
  /\ conn = "nil" /\ life.loopEnds < life.loops
  /\ \E handler \in {0, 1} :
       life' = [life EXCEPT !.disconnects = @ + handler, !.loopEnds = @ + 1]
  /\ UNCHANGED <<storeVars, bridgeVars, conn, loopMsg, received, tasks, sent, dropped,
                 downVars, threads>>

\* acceptLoop after Server.Close: Accept on the closed listener returns an
\* error, s.done is closed, the loop returns
AcceptLoopEnd ==
  /\ ~listening /\ life.serverCloses > 0 /\ life.acceptEnds < life.accepts
  /\ life' = [life EXCEPT !.acceptEnds = @ + 1]
  /\ UNCHANGED <<storeVars, bridgeVars, conn, loopMsg, received, tasks, sent, dropped,
                 downVars, threads>>

\* Bridge.Start on a bridge that is not running, after a Start that failed
\* or after Stop: Server.Start listens again and starts an accept loop
MaxStarts == 2

StartAgain ==
  /\ phase \in {"failed", "stopped"}
  /\ life.accepts < MaxStarts
  /\ phase' = "starting"
  /\ listening' = TRUE
  /\ life' = [life EXCEPT !.accepts = @ + 1]
  /\ UNCHANGED <<storeVars, inStateDump, stateDumpServer, stateDumpRequested,
                 conn, loopMsg, received, tasks, sent, dropped,
                 clients, cmds, outbox, wireVars, threads>>

\* the state of a downstream connection:
\*   "none"     not accepted yet;
\*   "active"   registered in s.clients, handleClient reads its lines;
\*   "closing"  handleClient has returned and its deferred function has
\*              closed the socket; the client is still in s.clients;
\*   "closed"   the deferred function has deleted it from s.clients.
Registered(c) == clients[c].state \in {"active", "closing"}

\* acceptLoop: a connection is accepted and registered
Accept(c) ==
  /\ listening
  /\ clients[c].state = "none"
  /\ clients' = [clients EXCEPT ![c] = [state |-> "active", authenticated |-> FALSE,
                                        nonce |-> ""]]
  /\ UNCHANGED <<storeVars, bridgeVars, upVars, listening, wireVars, cmds, outbox, threads>>

\* a mutant of replyTo: the reply goes to the other client
replyToOther(c) == CHOOSE d \in Clients : d # c

\* the client a reply to a command of client c is written to
replyTo(c) == c

\* Server.handleHandshake: a nonce is stored on the client and the htb
\* written to it
ClientHandshake(c) ==
  /\ clients[c].state = "active"
  /\ CommandsRead < MaxCmds
  /\ \E line \in LinesOf(c, "handshake"), nonce \in Nonces :
       /\ clients' = [clients EXCEPT ![c].nonce = nonce]
       /\ outbox' = [outbox EXCEPT ![replyTo(c)] =
                       Append(@, CreateHandshakeResponse(handleCommand(line).id,
                                                         "plain", nonce))]
  /\ UNCHANGED <<storeVars, bridgeVars, upVars, listening, wireVars, cmds, threads>>

\* Server.handleInit: the client is authenticated and the command handed to
\* a goroutine
ClientInit(c) ==
  /\ clients[c].state = "active"
  /\ CommandsRead < MaxCmds
  /\ clients' = [clients EXCEPT ![c].authenticated = TRUE]
  /\ \E line \in LinesOf(c, "init") :
       cmds' = Append(cmds, Cmd(c, line))
  /\ UNCHANGED <<storeVars, bridgeVars, upVars, listening, wireVars, outbox, threads>>

\* a mutant of ClientHData: the command is handed to a goroutine whether
\* the client is authenticated or not
ClientHDataNoCheck(c) ==
  /\ clients[c].state = "active"
  /\ CommandsRead < MaxCmds
  /\ \E line \in LinesOf(c, "hdata") : cmds' = Append(cmds, Cmd(c, line))
  /\ UNCHANGED <<storeVars, bridgeVars, upVars, listening, wireVars, outbox, clients, threads>>

\* Server.handleHData: "not authenticated" ends the session (handleClient
\* returns and its deferred function closes the socket); else the command
\* is handed to a goroutine
ClientHDataUpTo(c, max) ==
  /\ clients[c].state = "active"
  /\ CommandsRead < max
  /\ IF clients[c].authenticated
     THEN /\ \E line \in LinesOf(c, "hdata") :
               cmds' = Append(cmds, Cmd(c, line))
          /\ UNCHANGED clients
     ELSE /\ clients' = [clients EXCEPT ![c].state = "closing"]
          /\ UNCHANGED cmds
  /\ UNCHANGED <<storeVars, bridgeVars, upVars, listening, wireVars, outbox, threads>>

\* the same, of the first MaxCmds commands
ClientHData(c) == ClientHDataUpTo(c, MaxCmds)

\* a mutant of ClientForward: the command is handed to a goroutine whether
\* the client is authenticated or not
ClientForwardNoCheck(c) ==
  /\ clients[c].state = "active"
  /\ CommandsRead < MaxCmds
  /\ \E line \in ForwardLines : cmds' = Append(cmds, Cmd(c, line))
  /\ UNCHANGED <<storeVars, bridgeVars, upVars, listening, wireVars, outbox, clients, threads>>

\* Server.handleInput, handleSync, handleDesync and handleNicklist: "not
\* authenticated" ends the session; else the command is handed to a
\* goroutine
ClientForward(c) ==
  /\ clients[c].state = "active"
  /\ CommandsRead < MaxCmds
  /\ \E line \in ForwardLines :
       IF clients[c].authenticated
       THEN /\ cmds' = Append(cmds, Cmd(c, line))
            /\ UNCHANGED clients
       ELSE /\ clients' = [clients EXCEPT ![c].state = "closing"]
            /\ UNCHANGED cmds
  /\ UNCHANGED <<storeVars, bridgeVars, upVars, listening, wireVars, outbox, threads>>

\* handleCommand returns "malformed message ID": handleClient returns and
\* its deferred function closes the socket
ClientMalformed(c) ==
  /\ clients[c].state = "active"
  /\ \E line \in EndLines : handleCommand(line).err
  /\ clients' = [clients EXCEPT ![c].state = "closing"]
  /\ UNCHANGED <<storeVars, bridgeVars, upVars, listening, wireVars, cmds, outbox, threads>>

\* handleCommand, case "quit": the error "client requested quit" ends the
\* session in the same way
ClientQuit(c) ==
  /\ clients[c].state = "active"
  /\ \E line \in EndLines : handleCommand(line).cmd = "quit"
  /\ clients' = [clients EXCEPT ![c].state = "closing"]
  /\ UNCHANGED <<storeVars, bridgeVars, upVars, listening, wireVars, cmds, outbox, threads>>

\* handleClient, scanner.Scan returns false (end of file or a read error):
\* the loop ends and the deferred function closes the socket
ClientReadEnd(c) ==
  /\ clients[c].state = "active"
  /\ clients' = [clients EXCEPT ![c].state = "closing"]
  /\ UNCHANGED <<storeVars, bridgeVars, upVars, listening, wireVars, cmds, outbox, threads>>

\* handleClient's deferred function, after client.conn.Close(): the client
\* is deleted from s.clients under clientsMu
ClientRemove(c) ==
  /\ clients[c].state = "closing"
  /\ clients' = [clients EXCEPT ![c].state = "closed"]
  /\ UNCHANGED <<storeVars, bridgeVars, upVars, listening, wireVars, cmds, outbox, threads>>

\* a mutant of BroadcastMessage: a client deleted from s.clients is still
\* written to
BroadcastMessageRemoved(m) ==
  outbox' = [c \in Clients |->
               IF clients[c].state # "none" /\ clients[c].authenticated
               THEN Append(outbox[c], m) ELSE outbox[c]]

\* a mutant of BroadcastMessage: client.authenticated is not looked at
BroadcastMessageAll(m) ==
  outbox' = [c \in Clients |->
               IF clients[c].state = "active" THEN Append(outbox[c], m)
               ELSE outbox[c]]

\* a mutant of BroadcastMessage: the loop returns at the first SendMessage
\* that fails
BroadcastMessageStops(m) ==
  outbox' = [c \in Clients |->
               IF /\ Registered(c) /\ clients[c].authenticated
                  /\ \A d \in Clients : Registered(d) /\ clients[d].authenticated
                                           => clients[d].state = "active"
               THEN Append(outbox[c], m) ELSE outbox[c]]

\* the clients of s.clients BroadcastMessage writes to and fails on: the
\* socket has been closed by handleClient's deferred function
FailedWrites ==
  {c \in Clients : Registered(c) /\ clients[c].authenticated
                                /\ clients[c].state # "active"}

\* Server.BroadcastMessage: SendMessage on every client of s.clients that
\* is authenticated; the write on a closed socket fails and the error is
\* logged
BroadcastMessage(m) ==
  outbox' = [c \in Clients |->
               IF Registered(c) /\ clients[c].authenticated
                  /\ clients[c].state = "active"
               THEN Append(outbox[c], m) ELSE outbox[c]]

\* ------------------------------------------------------------------------
\* The bridge: handleWeeChatCommand.

\* b.mu is free (Bridge.Start holds it from its first line to its return;
\* the other critical sections are single steps)
MuFree == phase # "starting"

\* a mutant of stateDumpCheck: the flag is not set
stateDumpCheckNoSet(requested) ==
  [needsStateDump |-> ~requested, stateDumpRequested |-> requested]

\* handleWeeChatInit's critical section: needsStateDump and the flag after it
stateDumpCheck(requested) ==
  [needsStateDump |-> ~requested, stateDumpRequested |-> TRUE]

\* a mutant of InitCheck: the buffer list is pushed to the client at init
InitCheckPushes(i) ==
  /\ cmds[i].cmd = "init" /\ cmds[i].pc = "start"
  /\ MuFree
  /\ LET r == stateDumpCheck(stateDumpRequested) IN
       /\ stateDumpRequested' = r.stateDumpRequested
       /\ cmds' = [cmds EXCEPT ![i].needsStateDump = r.needsStateDump,
                               ![i].pc = IF r.needsStateDump THEN "request" ELSE "done"]
  /\ \E reply \in GetAllBuffers(buffers, cmds[i].id) :
       outbox' = [outbox EXCEPT ![cmds[i].client] = Append(@, reply)]
  /\ UNCHANGED <<storeVars, phase, inStateDump, stateDumpServer, upVars,
                 listening, clients, wireVars, threads>>

\* handleWeeChatInit, the critical section
InitCheck(i) ==
  /\ cmds[i].cmd = "init" /\ cmds[i].pc = "start"
  /\ MuFree
  /\ LET r == stateDumpCheck(stateDumpRequested) IN
       /\ stateDumpRequested' = r.stateDumpRequested
       /\ cmds' = [cmds EXCEPT ![i].needsStateDump = r.needsStateDump,
                               ![i].pc = IF r.needsStateDump THEN "request" ELSE "done"]
  /\ UNCHANGED <<storeVars, phase, inStateDump, stateDumpServer, upVars,
                 listening, clients, outbox, wireVars, threads>>

\* a mutant of InitRequest: a failed request clears the flag, so that the
\* next init asks again
InitRequestClears(i) ==
  /\ cmds[i].cmd = "init" /\ cmds[i].pc = "request"
  /\ \E ok \in WriteOutcomes :
       /\ SendMessage(SyncServerRequest, ok)
       /\ cmds' = [cmds EXCEPT ![i].err = ~ok, ![i].pc = "done"]
       /\ stateDumpRequested' = ok
  /\ UNCHANGED <<storeVars, phase, inStateDump, stateDumpServer, conn, loopMsg,
                 received, tasks, listening, clients, outbox, wireVars, dropped, life,
                 threads>>

\* handleWeeChatInit, b.erssiClient.RequestStateDump(); an error is logged
InitRequest(i) ==
  /\ cmds[i].cmd = "init" /\ cmds[i].pc = "request"
  /\ \E ok \in WriteOutcomes :
       /\ SendMessage(SyncServerRequest, ok)
       /\ cmds' = [cmds EXCEPT ![i].err = ~ok, ![i].pc = "done"]
  /\ UNCHANGED <<storeVars, bridgeVars, conn, loopMsg, received, tasks,
                 listening, clients, outbox, wireVars, dropped, life,
                 threads>>

\* the same with the calls of Client.SendMessage after Bridge.Stop counted
SInitRequest(i) ==
  /\ cmds[i].cmd = "init" /\ cmds[i].pc = "request"
  /\ \E ok \in WriteOutcomes :
       /\ SendMessage(SyncServerRequest, ok)
       /\ cmds' = [cmds EXCEPT ![i].err = ~ok, ![i].pc = "done"]
  /\ life' = [life EXCEPT !.lateSends = IF phase = "stopped" THEN @ + 1 ELSE @]
  /\ UNCHANGED <<storeVars, bridgeVars, conn, loopMsg, received, tasks,
                 listening, clients, outbox, wireVars, dropped, threads>>

\* handleWeeChatInput, ParseInputCommand and InputToErssiCommand: an error
\* of either is logged and ends the handler
InputLookup(i) ==
  LET parsed == ParseInputCommand(cmds[i].args) IN
  /\ cmds[i].cmd = "input" /\ cmds[i].pc = "start"
  /\ IF parsed.err
     THEN cmds' = [cmds EXCEPT ![i].pc = "done"]
     ELSE \E r \in InputToErssiCommand(buffers, parsed.bufferPtr, parsed.text) :
            cmds' = [cmds EXCEPT ![i].up = IF r.err THEN @ ELSE r.msg,
                                 ![i].pc = IF r.err THEN "done" ELSE "send"]
  /\ UNCHANGED <<storeVars, bridgeVars, upVars, listening, clients, outbox, wireVars, threads>>

\* handleWeeChatNicklist: no argument ends it; b.translator.GetBufferInfo,
\* and a request is made when both names are non-empty
NicklistLookup(i) ==
  /\ cmds[i].cmd = "nicklist" /\ cmds[i].pc = "start"
  /\ IF cmds[i].args = <<>>
     THEN cmds' = [cmds EXCEPT ![i].pc = "done"]
     ELSE \E info \in GetBufferInfo(buffers, cmds[i].args[1]) :
            cmds' = [cmds EXCEPT
                       ![i].up = IF info[1] # "" /\ info[2] # ""
                                 THEN NicklistRequest(info[1], info[2]) ELSE @,
                       ![i].pc = IF info[1] # "" /\ info[2] # ""
                                 THEN "send" ELSE "done"]
  /\ UNCHANGED <<storeVars, bridgeVars, upVars, listening, clients, outbox, wireVars, threads>>

\* handleWeeChatInput, b.erssiClient.SendMessage(erssiMsg), and
\* handleWeeChatNicklist, b.erssiClient.RequestNicklist: an error is logged
CommandSend(i) ==
  /\ cmds[i].pc = "send"
  /\ \E ok \in WriteOutcomes :
       /\ SendMessage(cmds[i].up, ok)
       /\ cmds' = [cmds EXCEPT ![i].err = ~ok, ![i].pc = "done"]
  /\ UNCHANGED <<storeVars, bridgeVars, conn, loopMsg, received, tasks, dropped,
                 life, listening, clients, outbox, wireVars, threads>>

\* handleWeeChatSync, and handleWeeChatCommand's default for desync:
\* nothing is done
SyncDone(i) ==
  /\ cmds[i].cmd \in {"sync", "desync"} /\ cmds[i].pc = "start"
  /\ cmds' = [cmds EXCEPT ![i].pc = "done"]
  /\ UNCHANGED <<storeVars, bridgeVars, upVars, listening, clients, outbox, wireVars, threads>>

\* handleWeeChatHData: which request an hdata path makes
HDataKind(path) ==
  IF path \in {"buffer:gui_buffers(*)", "buffer:gui_buffers"} THEN "buffers"
  ELSE IF Index(path, "lines") > 0 THEN "lines"
  ELSE IF path = "hotlist:gui_hotlist(*)" THEN "hotlist"
  ELSE "unhandled"

\* handleWeeChatHData, a buffer list request: the reply is built
HDataBuffers(i) ==
  /\ cmds[i].cmd = "hdata" /\ cmds[i].pc = "start"
  /\ ~ParseHDataCommand(cmds[i].args).err
  /\ HDataKind(ParseHDataCommand(cmds[i].args).path) = "buffers"
  /\ \E reply \in GetAllBuffers(buffers, cmds[i].id) :
       cmds' = [cmds EXCEPT ![i].out = reply, ![i].pc = "reply"]
  /\ UNCHANGED <<storeVars, bridgeVars, upVars, listening, wireVars, clients, outbox, threads>>

\* handleLineRequest, regexp `buffer:(0x[0-9a-f]+)` on the path: the
\* leftmost match's pointer, "" when there is no match
linePointer(path) ==
  LET at == {i \in 1..Len(path) :
               /\ HasPrefix(SubSeq(path, i, Len(path)), "buffer:0x")
               /\ RunLen(SubSeq(path, i + 9, Len(path)), HexDigits) >= 1}
      i == CHOOSE x \in at : \A y \in at : x <= y
  IN  IF at = {} THEN ""
      ELSE SubSeq(path, i + 7, i + 8 + RunLen(SubSeq(path, i + 9, Len(path)), HexDigits))

\* handleLineRequest, the count: 50, or |n| for the leftmost match of
\* regexp `\((-?\d+)\)` in params
lineCount(path, params) ==
  LET at == {i \in 1..Len(params) :
               LET r == SubSeq(params, i + 1, Len(params))
                   sign == IF HasPrefix(r, "-") THEN 1 ELSE 0
                   d == RunLen(SubSeq(r, sign + 1, Len(r)), DecimalDigits)
               IN  /\ CharAt(params, i) = "("
                   /\ d >= 1
                   /\ CharAt(r, sign + d + 1) = ")"}
      i == CHOOSE x \in at : \A y \in at : x <= y
      r == SubSeq(params, i + 1, Len(params))
      n == Atoi(SubSeq(r, 1, Index(r, ")") - 1))
  IN  IF params = "" \/ at = {} THEN DefaultCount
      ELSE IF n < 0 THEN 0 - n ELSE n

\* handleWeeChatHData, a line history request (handleLineRequest): no
\* pointer in the path ends it; else the reply is built
HDataLines(i) ==
  LET parsed == ParseHDataCommand(cmds[i].args)
      bufferPtr == linePointer(parsed.path)
  IN  /\ cmds[i].cmd = "hdata" /\ cmds[i].pc = "start"
      /\ ~parsed.err
      /\ HDataKind(parsed.path) = "lines"
      /\ IF bufferPtr = ""
         THEN cmds' = [cmds EXCEPT ![i].pc = "done"]
         ELSE \E reply \in GetBufferLines(buffers, bufferPtr,
                                          lineCount(parsed.path, parsed.params),
                                          cmds[i].id) :
                cmds' = [cmds EXCEPT ![i].out = reply, ![i].pc = "reply"]
      /\ UNCHANGED <<storeVars, bridgeVars, upVars, listening, wireVars, clients, outbox, threads>>

\* handleWeeChatHData, a hotlist request: the empty hotlist
HDataHotlist(i) ==
  /\ cmds[i].cmd = "hdata" /\ cmds[i].pc = "start"
  /\ ~ParseHDataCommand(cmds[i].args).err
  /\ HDataKind(ParseHDataCommand(cmds[i].args).path) = "hotlist"
  /\ cmds' = [cmds EXCEPT ![i].out = GetEmptyHotlist(cmds[i].id), ![i].pc = "reply"]
  /\ UNCHANGED <<storeVars, bridgeVars, upVars, listening, wireVars, clients, outbox, threads>>

\* handleWeeChatHData, client.SendMessage(msg)
HDataReply(i) ==
  /\ cmds[i].pc = "reply"
  /\ outbox' = [outbox EXCEPT ![replyTo(cmds[i].client)] =
                  IF clients[cmds[i].client].state = "active"
                  THEN Append(@, cmds[i].out) ELSE @]
  /\ cmds' = [cmds EXCEPT ![i].pc = "done"]
  /\ UNCHANGED <<storeVars, bridgeVars, upVars, listening, wireVars, clients, threads>>

\* ------------------------------------------------------------------------
\* The bridge: handleErssiMessage, one goroutine per upstream message.

\* In Spec the clock moves on by one tick before each read of it.
Advancing(n) == {[i \in 1..n |-> IF i <= k THEN 1 ELSE 0] : k \in 0..n}

\* the goroutines that have run to their end on an event of serverTag
Finished(serverTag) ==
  {j \in DOMAIN tasks : tasks[j].pc = "done" /\ tasks[j].msg.ServerTag = serverTag}

\* the handler of a state_dump of serverTag has run to its end
DumpHandled(serverTag) ==
  \E j \in Finished(serverTag) : tasks[j].msg.Type = "state_dump"

\* and after it the handler of an event that is neither state_dump nor
\* channel_join
DumpEnded(serverTag) ==
  \E j \in Finished(serverTag) :
    /\ tasks[j].msg.Type \notin {"state_dump", "channel_join"}
    /\ tasks[j].afterDump

\* task i after a step: where it goes, and what it read
Stepped(i, pc, after, out) ==
  [tasks[i] EXCEPT !.pc = pc, !.after = after, !.out = out,
                   !.seen = HandlerMsg(i),
                   !.parsed = Len(received),
                   !.afterDump = IF tasks[i].pc = "start"
                                 THEN DumpHandled(tasks[i].msg.ServerTag) ELSE @,
                   !.afterEnd = IF tasks[i].pc = "start"
                                THEN DumpEnded(tasks[i].msg.ServerTag) ELSE @]

\* the step of task i
Step(i, pc, after, out) == tasks' = [tasks EXCEPT ![i] = Stepped(i, pc, after, out)]

\* the buffer a translator call for (serverTag, target) creates: its key,
\* or "" when the store holds the buffer
Made(serverTag, target) ==
  IF getBufferKey(serverTag, target) \in DOMAIN buffers THEN ""
  ELSE getBufferKey(serverTag, target)

\* the system message of a join, part, quit or topic event
EventLine(m, text) ==
  WebMessage("message", "", m.ServerTag, m.Target, "--", text, m.Timestamp, FALSE,
             NoExtraData)

joinMsg(m) == EventLine(m, m.Nick \o " has joined " \o m.Target)

partMsg(m) ==
  EventLine(m, IF m.Text # ""
               THEN m.Nick \o " has left " \o m.Target \o " (" \o m.Text \o ")"
               ELSE m.Nick \o " has left " \o m.Target)

quitMsg(m) ==
  EventLine(m, IF m.Text # "" THEN m.Nick \o " has quit (" \o m.Text \o ")"
               ELSE m.Nick \o " has quit")

topicMsg(m) ==
  EventLine(m, IF m.Nick = "" THEN "Topic: " \o m.Text
               ELSE m.Nick \o " has changed topic to: " \o m.Text)

\* Translator.GetBufferOpenedEvent
GetBufferOpenedEvent(bufs, serverTag, target) ==
  LET bufferKey == getBufferKey(serverTag, target) IN
  IF bufferKey \in DOMAIN bufs
  THEN CreateBuffersHDataWithID(
         << BufferData(bufs[bufferKey], bufs[bufferKey].Title,
                       localVars(bufs[bufferKey])) >>, "_buffer_opened")
  ELSE CreateBuffersHDataWithID(<<>>, "_buffer_opened")

\* a line is translated and stored, and is then to be broadcast
TranslateLine(i, m, after) ==
  \E ticks \in Advancing(2) :
    LET T == ErssiMessageToLine(Translator(ticks), m) IN
    /\ AllAdvance(ticks, T)
    /\ CallErssiMessageToLine(m, ticks)
    /\ tasks' = [tasks EXCEPT ![i] =
                   [Stepped(i, "broadcast", after, T.out) EXCEPT
                      !.made = Made(m.ServerTag, m.Target)]]

\* case erssiproto.Message
HandleMessage(i) ==
  /\ tasks[i].pc = "start" /\ HandlerMsg(i).Type = "message"
  /\ TranslateLine(i, HandlerMsg(i), "done")
  /\ UNCHANGED <<bridgeVars, conn, loopMsg, received, sent, downVars, dropped, life, threads>>

\* case erssiproto.StateDump, the critical section
HandleStateDump(i) ==
  /\ tasks[i].pc = "start" /\ HandlerMsg(i).Type = "state_dump"
  /\ MuFree
  /\ inStateDump' = TRUE
  /\ stateDumpServer' = HandlerMsg(i).ServerTag
  /\ Step(i, "ensure_server", "done", NoMessage)
  /\ UNCHANGED <<storeVars, phase, stateDumpRequested, conn, loopMsg, received,
                 sent, downVars, dropped, life, threads>>

\* case erssiproto.StateDump, b.translator.EnsureServerBuffer(msg.ServerTag)
StateDumpEnsureServer(i) ==
  /\ tasks[i].pc = "ensure_server"
  /\ \E ticks \in Advancing(1) :
       /\ AllAdvance(ticks, EnsureServerBuffer(Translator(ticks), HandlerMsg(i).ServerTag))
       /\ CallEnsureServerBuffer(HandlerMsg(i).ServerTag, ticks)
  /\ Step(i, "done", "done", NoMessage)
  /\ UNCHANGED <<bridgeVars, conn, loopMsg, received, sent, downVars, dropped, life, threads>>

\* handleNicklist: an empty or unparsable text ends it; else the nick list
\* is stored and is then to be broadcast (the read of inStateDump that
\* follows the broadcast changes nothing)
HandleNicklist(i) ==
  LET m == HandlerMsg(i)
      parsed == ParseNickList(m.Text)
  IN  /\ tasks[i].pc = "start" /\ m.Type = "nicklist"
      /\ IF m.Text = "" \/ ~parsed.ok
         THEN /\ Step(i, "done", "done", NoMessage)
              /\ UNCHANGED storeVars
         ELSE \E ticks \in Advancing(1 + Len(parsed.nicks)) :
                LET T == ErssiNicklistToWeeChat(Translator(ticks), m, parsed.nicks) IN
                /\ AllAdvance(ticks, T)
                /\ CallErssiNicklistToWeeChat(m, parsed.nicks, ticks)
                /\ tasks' = [tasks EXCEPT ![i] =
                               [Stepped(i, "broadcast", "done", T.out) EXCEPT
                                  !.made = Made(m.ServerTag, m.Target)]]
      /\ UNCHANGED <<bridgeVars, conn, loopMsg, received, sent, downVars, dropped, life, threads>>

\* handleChannelJoin, the read of b.inStateDump
HandleChannelJoin(i) ==
  /\ tasks[i].pc = "start" /\ HandlerMsg(i).Type = "channel_join"
  /\ MuFree
  /\ tasks' = [tasks EXCEPT ![i] =
                 [Stepped(i, IF inStateDump THEN "ensure_buffer" ELSE "join_line",
                          "done", NoMessage) EXCEPT !.inStateDump = inStateDump]]
  /\ UNCHANGED <<storeVars, bridgeVars, conn, loopMsg, received, sent, downVars, dropped, life,
                 threads>>

\* handleChannelJoin during a state dump: b.translator.EnsureBuffer
JoinEnsureBuffer(i) ==
  /\ tasks[i].pc = "ensure_buffer"
  /\ \E ticks \in Advancing(1) :
       /\ AllAdvance(ticks, EnsureBuffer(Translator(ticks), HandlerMsg(i).ServerTag,
                                        HandlerMsg(i).Target))
       /\ CallEnsureBuffer(HandlerMsg(i).ServerTag, HandlerMsg(i).Target, ticks)
  /\ tasks' = [tasks EXCEPT ![i] =
                 [Stepped(i, "done", "done", NoMessage) EXCEPT
                    !.made = Made(HandlerMsg(i).ServerTag, HandlerMsg(i).Target)]]
  /\ UNCHANGED <<bridgeVars, conn, loopMsg, received, sent, downVars, dropped, life, threads>>

\* handleChannelJoin, a real-time join: the join line
JoinLine(i) ==
  /\ tasks[i].pc = "join_line"
  /\ TranslateLine(i, joinMsg(HandlerMsg(i)), "request_nicklist")
  /\ UNCHANGED <<bridgeVars, conn, loopMsg, received, sent, downVars, dropped, life, threads>>

\* handleChannelPart: the part line
HandleChannelPart(i) ==
  /\ tasks[i].pc = "start" /\ HandlerMsg(i).Type = "channel_part"
  /\ TranslateLine(i, partMsg(HandlerMsg(i)), "request_nicklist")
  /\ UNCHANGED <<bridgeVars, conn, loopMsg, received, sent, downVars, dropped, life, threads>>

\* handleUserQuit: the quit line, when the event names a target
HandleUserQuit(i) ==
  /\ tasks[i].pc = "start" /\ HandlerMsg(i).Type = "user_quit"
  /\ IF HandlerMsg(i).Target # ""
     THEN TranslateLine(i, quitMsg(HandlerMsg(i)), "done")
     ELSE /\ Step(i, "done", "done", NoMessage)
          /\ UNCHANGED storeVars
  /\ UNCHANGED <<bridgeVars, conn, loopMsg, received, sent, downVars, dropped, life, threads>>

\* handleTopic: the topic line
HandleTopic(i) ==
  /\ tasks[i].pc = "start" /\ HandlerMsg(i).Type = "topic"
  /\ TranslateLine(i, topicMsg(HandlerMsg(i)), "buffer_opened")
  /\ UNCHANGED <<bridgeVars, conn, loopMsg, received, sent, downVars, dropped, life, threads>>

\* handleTopic: b.translator.GetBufferOpenedEvent, then to be broadcast
TopicBufferOpened(i) ==
  /\ tasks[i].pc = "buffer_opened"
  /\ Step(i, "broadcast", "done",
          GetBufferOpenedEvent(buffers, HandlerMsg(i).ServerTag, HandlerMsg(i).Target))
  /\ UNCHANGED <<storeVars, bridgeVars, conn, loopMsg, received, sent, downVars, dropped, life,
                 threads>>

\* handleActivityUpdate and the default case: nothing is done
HandleOther(i) ==
  /\ tasks[i].pc = "start"
  /\ HandlerMsg(i).Type \notin {"message", "state_dump", "nicklist", "channel_join",
                                "channel_part", "user_quit", "topic"}
  /\ Step(i, "done", "done", NoMessage)
  /\ UNCHANGED <<storeVars, bridgeVars, conn, loopMsg, received, sent, downVars, dropped, life,
                 threads>>

\* b.weechatServer.BroadcastMessage(weechatMsg)
HandlerBroadcast(i) ==
  /\ tasks[i].pc = "broadcast"
  /\ BroadcastMessage(tasks[i].out)
  /\ tasks' = [tasks EXCEPT ![i] =
                 [Stepped(i, tasks[i].after, "done", NoMessage) EXCEPT
                    !.cast = Append(@, tasks[i].out)]]
  /\ UNCHANGED <<storeVars, bridgeVars, conn, loopMsg, received, sent,
                 listening, clients, cmds, wireVars, dropped, life, threads>>

\* the same with the errors BroadcastMessage logs kept in the task
LHandlerBroadcast(i) ==
  /\ tasks[i].pc = "broadcast"
  /\ BroadcastMessage(tasks[i].out)
  /\ tasks' = [tasks EXCEPT ![i] =
                 [Stepped(i, tasks[i].after, "done", NoMessage) EXCEPT
                    !.cast = Append(@, tasks[i].out),
                    !.failed = @ \cup FailedWrites]]
  /\ UNCHANGED <<storeVars, bridgeVars, conn, loopMsg, received, sent,
                 listening, clients, cmds, wireVars, dropped, life, threads>>

\* b.erssiClient.RequestNicklist(msg.ServerTag, msg.Target); an error is
\* logged
HandlerRequestNicklist(i) ==
  /\ tasks[i].pc = "request_nicklist"
  /\ \E ok \in WriteOutcomes :
       LET req == NicklistRequest(HandlerMsg(i).ServerTag, HandlerMsg(i).Target) IN
       /\ SendMessage(req, ok)
       /\ tasks' = [tasks EXCEPT ![i] =
                      [Stepped(i, "done", "done", NoMessage) EXCEPT
                         !.asked = Append(@, [req |-> req, ok |-> ok])]]
  /\ UNCHANGED <<storeVars, bridgeVars, conn, loopMsg, received, downVars, dropped, life,
                 threads>>

\* ------------------------------------------------------------------------
\* Specifications.

\* ------------------------------------------------------------------------
\* The locks: Bridge.mu, Translator.buffersMu, Server.clientsMu, the mu of
\* a downstream Client and the mu of the upstream Client.  A goroutine is
\* the sequence of the Lock, RLock, Unlock and RUnlock calls it makes.

Lock(mu) == [op |-> "Lock", mu |-> mu]
RLock(mu) == [op |-> "RLock", mu |-> mu]
Unlock(mu) == [op |-> "Unlock", mu |-> mu]
RUnlock(mu) == [op |-> "RUnlock", mu |-> mu]

\* Translator.ErssiMessageToLine, EnsureBuffer and the other writers of the
\* store: buffersMu is held to the return
TranslatorWrite == <<Lock("buffersMu"), Unlock("buffersMu")>>

\* Translator.GetAllBuffers, GetBufferLines, InputToErssiCommand,
\* GetBufferInfo
TranslatorRead == <<RLock("buffersMu"), RUnlock("buffersMu")>>

\* weechat Client.SendMessage
ClientSend == <<Lock("client.mu"), Unlock("client.mu")>>

\* Server.BroadcastMessage: clientsMu is read-locked around the
\* SendMessage of each client
Broadcast == <<RLock("clientsMu")>> \o ClientSend \o <<RUnlock("clientsMu")>>

\* erssi Client.SendMessage
UpstreamSend == <<Lock("erssi.mu"), Unlock("erssi.mu")>>

\* a mutant of StopLocks: the upstream client is closed first
StopLocksUpstreamFirst ==
  <<Lock("erssi.mu"), Lock("b.mu"), Unlock("b.mu"), Unlock("erssi.mu")>>

\* Bridge.Stop: b.mu is held around Client.Close, which holds the upstream
\* client's mu
StopLocks ==
  <<Lock("b.mu"), Lock("erssi.mu"), Unlock("erssi.mu"), Unlock("b.mu")>>

\* Bridge.Start: b.mu is held around Client.Connect, which locks the
\* upstream client's mu to store the connection and read-locks it to
\* start the connected handler
StartLocks ==
  <<Lock("b.mu"), Lock("erssi.mu"), Unlock("erssi.mu"),
    RLock("erssi.mu"), RUnlock("erssi.mu"), Unlock("b.mu")>>

\* the goroutines and their calls:
\*   readLoop  either critical section of an iteration: c.conn is read,
\*             or a handler is started;
\*   dump      handleErssiMessage of a state_dump;
\*   nicklist  handleNicklist: the store is written, the message
\*             broadcast, the flag read (handleErssiMessage of a message
\*             makes the first two of these);
\*   join      handleChannelJoin outside a state dump: the flag is read,
\*             the line stored and broadcast, the nick list requested;
\*   init      handleWeeChatInit;
\*   hdata     handleWeeChatHData: the store is read, the reply sent;
\*   input     handleWeeChatInput;
\*   accept    acceptLoop registering a client, or handleClient's deferred
\*             function deleting it
Scripts ==
  [start |-> StartLocks,
   stop |-> StopLocks,
   readLoop |-> <<RLock("erssi.mu"), RUnlock("erssi.mu")>>,
   dump |-> <<Lock("b.mu"), Unlock("b.mu")>> \o TranslatorWrite,
   nicklist |-> TranslatorWrite \o Broadcast \o <<RLock("b.mu"), RUnlock("b.mu")>>,
   join |-> <<RLock("b.mu"), RUnlock("b.mu")>> \o TranslatorWrite \o Broadcast
              \o UpstreamSend,
   init |-> <<Lock("b.mu"), Unlock("b.mu")>> \o UpstreamSend,
   hdata |-> TranslatorRead \o ClientSend,
   input |-> TranslatorRead \o UpstreamSend,
   accept |-> <<Lock("clientsMu"), Unlock("clientsMu")>>]

Kinds == DOMAIN Scripts

\* the goroutines that run at a time
MaxThreads == 3

Running == {k \in Kinds : threads[k].pc > 0}

\* the call goroutine k makes next
NextCall(k) == Scripts[k][threads[k].pc]

Mutexes == {"b.mu", "buffersMu", "clientsMu", "client.mu", "erssi.mu"}

\* the last call on mu of a goroutine of kind k that stands before its
\* call pc, computed once
LastCallMemo ==
  [k \in Kinds |->
     [pc \in 0..Len(Scripts[k]) |->
        [mu \in Mutexes |->
           LET made == {i \in 1..(pc - 1) : Scripts[k][i].mu = mu} IN
           IF made = {} THEN "none"
           ELSE Scripts[k][CHOOSE i \in made : \A j \in made : j <= i].op]]]

\* the last call goroutine k has made on mu
LastCall(k, mu) == LastCallMemo[k][threads[k].pc][mu]

\* sync.RWMutex: who holds mu for writing, who for reading, and whether a
\* call of Lock is waiting, which keeps RLock from returning
Writers(mu) == {k \in Running : LastCall(k, mu) = "Lock"}

Readers(mu) == {k \in Running : LastCall(k, mu) = "RLock"}

LockWaiting(mu) ==
  \E k \in Running : threads[k].pending /\ NextCall(k).mu = mu

\* goroutine k after the call it makes next has returned
Returned(k) ==
  [threads EXCEPT ![k] = [pc |-> IF threads[k].pc = Len(Scripts[k]) THEN 0
                                 ELSE threads[k].pc + 1,
                          pending |-> FALSE]]

\* nobody holds mu
Free(mu) == Writers(mu) = {} /\ Readers(mu) = {}

\* goroutine k can go on: its next call returns, or it is a Lock that has
\* not been made yet
CanStep(k) ==
  \/ NextCall(k).op \in {"Unlock", "RUnlock"}
  \/ NextCall(k).op = "Lock" /\ (Free(NextCall(k).mu) \/ ~threads[k].pending)
  \/ /\ NextCall(k).op = "RLock"
     /\ Writers(NextCall(k).mu) = {} /\ ~LockWaiting(NextCall(k).mu)

\* a goroutine is started
Spawn(k) ==
  /\ threads[k].pc = 0
  /\ Cardinality(Running) < MaxThreads
  /\ threads' = [threads EXCEPT ![k].pc = 1]
  /\ UNCHANGED <<storeVars, bridgeVars, upVars, downVars>>

\* Lock is called on a mutex that is held: the goroutine waits, and from
\* now on no RLock of the mutex returns
LockCall(k) ==
  /\ k \in Running /\ NextCall(k).op = "Lock" /\ ~threads[k].pending
  /\ ~Free(NextCall(k).mu)
  /\ threads' = [threads EXCEPT ![k].pending = TRUE]
  /\ UNCHANGED <<storeVars, bridgeVars, upVars, downVars>>

\* Lock returns: nobody holds the mutex
LockReturn(k) ==
  /\ k \in Running /\ NextCall(k).op = "Lock"
  /\ Free(NextCall(k).mu)
  /\ threads' = Returned(k)
  /\ UNCHANGED <<storeVars, bridgeVars, upVars, downVars>>

\* RLock returns: nobody holds the mutex for writing or waits to
RLockReturn(k) ==
  /\ k \in Running /\ NextCall(k).op = "RLock"
  /\ Writers(NextCall(k).mu) = {} /\ ~LockWaiting(NextCall(k).mu)
  /\ threads' = Returned(k)
  /\ UNCHANGED <<storeVars, bridgeVars, upVars, downVars>>

\* Unlock or RUnlock
Release(k) ==
  /\ k \in Running /\ NextCall(k).op \in {"Unlock", "RUnlock"}
  /\ threads' = Returned(k)
  /\ UNCHANGED <<storeVars, bridgeVars, upVars, downVars>>

NextLocks ==
  \/ \E k \in Kinds : Spawn(k)
  \/ \E k \in Kinds : LockCall(k)
  \/ \E k \in Kinds : LockReturn(k)
  \/ \E k \in Kinds : RLockReturn(k)
  \/ \E k \in Kinds : Release(k)

\* bridge.New: NewTranslator (an empty map, nextBufferNum 1), a client with
\* no connection, a server that does not listen yet
Init ==
  /\ buffers = <<>>
  /\ nextBufferNum = 1
  /\ clock = 1
  /\ touched = {}
  /\ lineLog = <<>>
  /\ ingested = {}
  /\ phase = "new"
  /\ inStateDump = FALSE
  /\ stateDumpServer = ""
  /\ stateDumpRequested = FALSE
  /\ conn = "nil"
  /\ loopMsg = NoWebMessage
  /\ received = <<>>
  /\ tasks = <<>>
  /\ sent = <<>>
  /\ dropped = <<>>
  /\ life = [accepts |-> 0, acceptEnds |-> 0, serverCloses |-> 0,
             loops |-> 0, loopEnds |-> 0, disconnects |-> 0, lateSends |-> 0]
  /\ listening = FALSE
  /\ clients = [c \in Clients |-> [state |-> "none", authenticated |-> FALSE,
                                    nonce |-> ""]]
  /\ cmds = <<>>
  /\ outbox = [c \in Clients |-> <<>>]
  /\ wire = <<>>
  /\ sockets = [c \in Clients |-> [mu |-> 0, written |-> <<>>]]
  /\ writers = <<>>
  /\ threads = [k \in Kinds |-> [pc |-> 0, pending |-> FALSE]]

\* The bridge: the downstream clients' commands and the upstream frames,
\* each handled by a goroutine of its own.
Next ==
  \/ StartServer
  \/ ConnectOK
  \/ ConnectFail
  \/ Stop
  \/ ReadFrame
  \/ ReadError
  \/ \E c \in Clients : Accept(c)
  \/ \E c \in Clients : ClientHandshake(c)
  \/ \E c \in Clients : ClientInit(c)
  \/ \E c \in Clients : ClientHData(c)
  \/ \E c \in Clients : ClientRemove(c)
  \/ \E i \in DOMAIN cmds : InitCheck(i)
  \/ \E i \in DOMAIN cmds : InitRequest(i)
  \/ \E i \in DOMAIN cmds : HDataBuffers(i)
  \/ \E i \in DOMAIN cmds : HDataLines(i)
  \/ \E i \in DOMAIN cmds : HDataHotlist(i)
  \/ \E i \in DOMAIN cmds : HDataReply(i)
  \/ \E i \in DOMAIN tasks : HandleMessage(i)
  \/ \E i \in DOMAIN tasks : HandleStateDump(i)
  \/ \E i \in DOMAIN tasks : StateDumpEnsureServer(i)
  \/ \E i \in DOMAIN tasks : HandleNicklist(i)
  \/ \E i \in DOMAIN tasks : HandleChannelJoin(i)
  \/ \E i \in DOMAIN tasks : JoinEnsureBuffer(i)
  \/ \E i \in DOMAIN tasks : JoinLine(i)
  \/ \E i \in DOMAIN tasks : HandleChannelPart(i)
  \/ \E i \in DOMAIN tasks : HandleUserQuit(i)
  \/ \E i \in DOMAIN tasks : HandleTopic(i)
  \/ \E i \in DOMAIN tasks : TopicBufferOpened(i)
  \/ \E i \in DOMAIN tasks : HandleOther(i)
  \/ \E i \in DOMAIN tasks : HandlerBroadcast(i)
  \/ \E i \in DOMAIN tasks : HandlerRequestNicklist(i)

Spec == Init /\ [][Next]_vars

\* The upstream side of the bridge: the read loop and the goroutines that
\* handle its messages, with no downstream client connected.
NextUpstream ==
  \/ StartServer
  \/ ConnectOK
  \/ ConnectFail
  \/ Stop
  \/ ReadFrame
  \/ ReadError
  \/ \E i \in DOMAIN tasks : HandleMessage(i)
  \/ \E i \in DOMAIN tasks : HandleStateDump(i)
  \/ \E i \in DOMAIN tasks : StateDumpEnsureServer(i)
  \/ \E i \in DOMAIN tasks : HandleNicklist(i)
  \/ \E i \in DOMAIN tasks : HandleChannelJoin(i)
  \/ \E i \in DOMAIN tasks : JoinEnsureBuffer(i)
  \/ \E i \in DOMAIN tasks : JoinLine(i)
  \/ \E i \in DOMAIN tasks : HandleChannelPart(i)
  \/ \E i \in DOMAIN tasks : HandleUserQuit(i)
  \/ \E i \in DOMAIN tasks : HandleTopic(i)
  \/ \E i \in DOMAIN tasks : TopicBufferOpened(i)
  \/ \E i \in DOMAIN tasks : HandleOther(i)
  \/ \E i \in DOMAIN tasks : HandlerBroadcast(i)
  \/ \E i \in DOMAIN tasks : HandlerRequestNicklist(i)

SpecUpstream == Init /\ [][NextUpstream]_vars

\* The end of a state dump: a state_dump, a message and a channel_join of
\* one server, read in any order and number up to MaxDumpEndFrames.
DumpEndFrames == {f \in Frames : f.type \in {"state_dump", "message", "channel_join"}}

ReadDumpEndFrame == ReadFrameOf(DumpEndFrames, MaxDumpEndFrames)

NextDumpEnd ==
  \/ StartServer
  \/ ConnectOK
  \/ ReadDumpEndFrame
  \/ \E i \in DOMAIN tasks : HandleMessage(i)
  \/ \E i \in DOMAIN tasks : HandleStateDump(i)
  \/ \E i \in DOMAIN tasks : StateDumpEnsureServer(i)
  \/ \E i \in DOMAIN tasks : HandleChannelJoin(i)
  \/ \E i \in DOMAIN tasks : JoinEnsureBuffer(i)
  \/ \E i \in DOMAIN tasks : JoinLine(i)
  \/ \E i \in DOMAIN tasks : HandlerBroadcast(i)
  \/ \E i \in DOMAIN tasks : HandlerRequestNicklist(i)

SpecDumpEnd == Init /\ [][NextDumpEnd]_vars

\* The downstream side of the bridge: the clients' commands and the
\* goroutines that handle them, with no frame read from the upstream.
NextDownstream ==
  \/ StartServer
  \/ ConnectOK
  \/ ConnectFail
  \/ Stop
  \/ ReadError
  \/ \E c \in Clients : Accept(c)
  \/ \E c \in Clients : ClientHandshake(c)
  \/ \E c \in Clients : ClientInit(c)
  \/ \E c \in Clients : ClientHData(c)
  \/ \E c \in Clients : ClientRemove(c)
  \/ \E i \in DOMAIN cmds : InitCheck(i)
  \/ \E i \in DOMAIN cmds : InitRequest(i)
  \/ \E i \in DOMAIN cmds : HDataBuffers(i)
  \/ \E i \in DOMAIN cmds : HDataLines(i)
  \/ \E i \in DOMAIN cmds : HDataHotlist(i)
  \/ \E i \in DOMAIN cmds : HDataReply(i)

SpecDownstream == Init /\ [][NextDownstream]_vars

\* The downstream requests on a filled store: the translator is given
\* message events for a channel and for a private query of one server, and
\* the server buffer is ensured, while the clients send their commands.
RequestTargets == {"#a", "alice"}

RErssiMessageToLine ==
  /\ TotalLines < MaxMsgs
  /\ \E t \in RequestTargets : \E ticks \in Advancing(2) :
       /\ AllAdvance(ticks, ErssiMessageToLine(Translator(ticks),
                                              MessageEvent("libera", t, TotalLines + 1)))
       /\ CallErssiMessageToLine(MessageEvent("libera", t, TotalLines + 1), ticks)
  /\ UNCHANGED <<bridgeVars, upVars, downVars, threads>>

REnsureServerBuffer ==
  /\ "libera" \notin DOMAIN buffers
  /\ \E ticks \in Advancing(1) :
       /\ AllAdvance(ticks, EnsureServerBuffer(Translator(ticks), "libera"))
       /\ CallEnsureServerBuffer("libera", ticks)
  /\ UNCHANGED <<bridgeVars, upVars, downVars, threads>>

NextRequests ==
  \/ StartServer
  \/ ConnectOK
  \/ RErssiMessageToLine
  \/ REnsureServerBuffer
  \/ \E c \in Clients : Accept(c)
  \/ \E c \in Clients : ClientHandshake(c)
  \/ \E c \in Clients : ClientInit(c)
  \/ \E c \in Clients : ClientHData(c)
  \/ \E c \in Clients : ClientRemove(c)
  \/ \E i \in DOMAIN cmds : InitCheck(i)
  \/ \E i \in DOMAIN cmds : InitRequest(i)
  \/ \E i \in DOMAIN cmds : HDataBuffers(i)
  \/ \E i \in DOMAIN cmds : HDataLines(i)
  \/ \E i \in DOMAIN cmds : HDataHotlist(i)
  \/ \E i \in DOMAIN cmds : HDataReply(i)

SpecRequests == Init /\ [][NextRequests]_vars

\* The commands a client sends about a buffer: buffers are ensured for a
\* channel of libera and for a channel of a server whose tag holds a ".",
\* the upstream connection can break, and the clients send init, input,
\* sync, desync and nicklist.
InputBuffers == {<<"libera", "#A">>, <<"irc.libera", "#b">>}

InputEnsureBuffer ==
  /\ \E b \in InputBuffers : \E ticks \in Advancing(1) :
       /\ getBufferKey(b[1], b[2]) \notin DOMAIN buffers
       /\ AllAdvance(ticks, EnsureBuffer(Translator(ticks), b[1], b[2]))
       /\ CallEnsureBuffer(b[1], b[2], ticks)
  /\ UNCHANGED <<bridgeVars, upVars, downVars, threads>>

NextInput ==
  \/ StartServer
  \/ ConnectOK
  \/ ReadError
  \/ InputEnsureBuffer
  \/ \E c \in Clients : Accept(c)
  \/ \E c \in Clients : ClientInit(c)
  \/ \E c \in Clients : ClientForward(c)
  \/ \E c \in Clients : ClientRemove(c)
  \/ \E i \in DOMAIN cmds : InitCheck(i)
  \/ \E i \in DOMAIN cmds : InitRequest(i)
  \/ \E i \in DOMAIN cmds : InputLookup(i)
  \/ \E i \in DOMAIN cmds : NicklistLookup(i)
  \/ \E i \in DOMAIN cmds : CommandSend(i)
  \/ \E i \in DOMAIN cmds : SyncDone(i)

SpecInput == Init /\ [][NextInput]_vars

\* The commands of clients that have sent init and of clients that have
\* not: hdata, input, sync, desync and nicklist, on a store of up to two
\* buffers.
NextCommands ==
  \/ StartServer
  \/ ConnectOK
  \/ InputEnsureBuffer
  \/ \E c \in Clients : Accept(c)
  \/ \E c \in Clients : ClientInit(c)
  \/ \E c \in Clients : ClientHData(c)
  \/ \E c \in Clients : ClientForward(c)
  \/ \E c \in Clients : ClientRemove(c)
  \/ \E i \in DOMAIN cmds : InitCheck(i)
  \/ \E i \in DOMAIN cmds : InitRequest(i)
  \/ \E i \in DOMAIN cmds : HDataBuffers(i)
  \/ \E i \in DOMAIN cmds : HDataLines(i)
  \/ \E i \in DOMAIN cmds : HDataHotlist(i)
  \/ \E i \in DOMAIN cmds : HDataReply(i)
  \/ \E i \in DOMAIN cmds : InputLookup(i)
  \/ \E i \in DOMAIN cmds : NicklistLookup(i)
  \/ \E i \in DOMAIN cmds : CommandSend(i)
  \/ \E i \in DOMAIN cmds : SyncDone(i)

SpecCommands == Init /\ [][NextCommands]_vars

\* The same with the deferred function of handleClient running to its end.
SpecCommandsLive == SpecCommands /\ \A c \in Clients : WF_vars(ClientRemove(c))

\* The sessions of the downstream clients: each is accepted, sends init or
\* not, and ends by a malformed line, quit, the end of its input or a read
\* error, while message events of the upstream are broadcast.
SessionFrames == {f \in Frames : f.type = "message"}

ReadSessionFrame == ReadFrameOf(SessionFrames, MaxSessionFrames)

NextSessions ==
  \/ StartServer
  \/ ConnectOK
  \/ ReadSessionFrame
  \/ \E i \in DOMAIN tasks : HandleMessage(i)
  \/ \E i \in DOMAIN tasks : HandlerBroadcast(i)
  \/ \E c \in Clients : Accept(c)
  \/ \E c \in Clients : ClientInit(c)
  \/ \E c \in Clients : ClientMalformed(c)
  \/ \E c \in Clients : ClientQuit(c)
  \/ \E c \in Clients : ClientReadEnd(c)
  \/ \E c \in Clients : ClientRemove(c)
  \/ \E i \in DOMAIN cmds : InitCheck(i)
  \/ \E i \in DOMAIN cmds : InitRequest(i)

\* The read loop of the upstream client: frames that decrypt and parse
\* and frames that do not, in any order, and the handlers of the message
\* events among them.
NextReadLoop ==
  \/ StartServer
  \/ ConnectOK
  \/ ReadWireFrame
  \/ ReadError
  \/ \E i \in DOMAIN tasks : HandleMessage(i)
  \/ \E i \in DOMAIN tasks : HandlerBroadcast(i)

SpecReadLoop == Init /\ [][NextReadLoop]_vars

SpecSessions == Init /\ [][NextSessions]_vars

\* The broadcasts to clients that come, send init and go, with the write
\* errors of each broadcast kept.
NextBroadcast ==
  \/ StartServer
  \/ ConnectOK
  \/ ReadSessionFrame
  \/ \E i \in DOMAIN tasks : HandleMessage(i)
  \/ \E i \in DOMAIN tasks : LHandlerBroadcast(i)
  \/ \E c \in Clients : Accept(c)
  \/ \E c \in Clients : ClientInit(c)
  \/ \E c \in Clients : ClientQuit(c)
  \/ \E c \in Clients : ClientReadEnd(c)
  \/ \E c \in Clients : ClientRemove(c)

SpecBroadcast == Init /\ [][NextBroadcast]_vars

\* The end of the upstream connection: it breaks or the bridge is stopped
\* while message events are read and handled and clients send init.
NextDisconnect ==
  \/ StartServer
  \/ ConnectOK
  \/ Stop
  \/ ReadSessionFrame
  \/ ReadError
  \/ ReadClosed
  \/ \E i \in DOMAIN tasks : HandleMessage(i)
  \/ \E i \in DOMAIN tasks : HandlerBroadcast(i)
  \/ \E c \in Clients : Accept(c)
  \/ \E c \in Clients : ClientInit(c)
  \/ \E i \in DOMAIN cmds : InitCheck(i)
  \/ \E i \in DOMAIN cmds : InitRequest(i)

SpecDisconnect == Init /\ [][NextDisconnect]_vars

\* The end of the bridge: the bridge is stopped, or the upstream connection
\* breaks first, while clients come, send init, which asks the upstream
\* for its state, and go.
NextShutdown ==
  \/ StartServer
  \/ ConnectOK
  \/ Stop
  \/ ReadError
  \/ ReadClosed
  \/ AcceptLoopEnd
  \/ \E c \in Clients : Accept(c)
  \/ \E c \in Clients : ClientInit(c)
  \/ \E c \in Clients : ClientReadEnd(c)
  \/ \E c \in Clients : ClientRemove(c)
  \/ \E i \in DOMAIN cmds : InitCheck(i)
  \/ \E i \in DOMAIN cmds : SInitRequest(i)

SpecShutdown == Init /\ [][NextShutdown]_vars

\* The same with the read loop and the accept loop running until they
\* return.
SpecShutdownLive == SpecShutdown /\ WF_vars(ReadClosed) /\ WF_vars(AcceptLoopEnd)

\* The calls of Bridge.Start and Bridge.Stop in any order, each Start with
\* a dial that succeeds or fails, while clients connect and leave.
NextLifecycle ==
  \/ StartServer
  \/ StartAgain
  \/ ConnectOK
  \/ ConnectFail
  \/ Stop
  \/ ReadError
  \/ ReadClosed
  \/ AcceptLoopEnd
  \/ \E c \in Clients : Accept(c)
  \/ \E c \in Clients : ClientReadEnd(c)
  \/ \E c \in Clients : ClientRemove(c)

SpecLifecycle == Init /\ [][NextLifecycle]_vars

\* The locks, with up to MaxThreads goroutines of different kinds at a time.
SpecLocks == Init /\ [][NextLocks]_vars

\* The nick lists of the upstream: nick-list events with two nicks and with
\* none for one channel, written in two cases, one with an empty text,
\* which is not handled, and a message event for another channel.
NickFrame(target, text) ==
  Frame("nicklist", "", "libera", "", target, "", text, 0, NoExtraData)

NickFrames ==
  { NickFrame("#a", NickListText), NickFrame("#A", "[]"), NickFrame("#a", ""),
    Frame("message", "", "libera", "", "#b", "bob", "hi", 1700000005, NoExtraData) }

MaxNickFrames == 3

ReadNickFrame == ReadFrameOf(NickFrames, MaxNickFrames)

NextNicklist ==
  \/ StartServer
  \/ ConnectOK
  \/ ReadNickFrame
  \/ \E i \in DOMAIN tasks : HandleMessage(i)
  \/ \E i \in DOMAIN tasks : HandleNicklist(i)
  \/ \E i \in DOMAIN tasks : HandlerBroadcast(i)

SpecNicklist == Init /\ [][NextNicklist]_vars

\* The names of the wire fields: message events that name their buffer by
\* target and server_tag, by channel and server, by both with different
\* values, by a mix of the two, and with no target at all.
AliasFrame(server, serverTag, channel, target) ==
  Frame("message", server, serverTag, channel, target, "bob", "hi", 1700000005,
        NoExtraData)

AliasFrames ==
  { AliasFrame("", "libera", "", "#a"),
    AliasFrame("libera", "", "#a", ""),
    AliasFrame("oftc", "libera", "#b", "#a"),
    AliasFrame("", "libera", "#b", ""),
    AliasFrame("libera", "", "", "") }

ReadAliasFrame == ReadFrameOf(AliasFrames, MaxFrames)

NextAliases ==
  \/ StartServer
  \/ ConnectOK
  \/ ReadAliasFrame
  \/ \E i \in DOMAIN tasks : HandleMessage(i)
  \/ \E i \in DOMAIN tasks : HandlerBroadcast(i)

SpecAliases == Init /\ [][NextAliases]_vars

\* The replies to the requests of a client: each client sends init and
\* then up to two hdata requests, and every request is handled by a
\* goroutine of its own.
MaxRequests == 3

NextReplies ==
  \/ StartServer
  \/ ConnectOK
  \/ \E c \in Clients : Accept(c)
  \/ \E c \in Clients : ClientInit(c)
  \/ \E c \in Clients : ClientHDataUpTo(c, MaxRequests)
  \/ \E i \in DOMAIN cmds : InitCheck(i)
  \/ \E i \in DOMAIN cmds : InitRequest(i)
  \/ \E i \in DOMAIN cmds : HDataBuffers(i)
  \/ \E i \in DOMAIN cmds : HDataLines(i)
  \/ \E i \in DOMAIN cmds : HDataHotlist(i)
  \/ \E i \in DOMAIN cmds : HDataReply(i)

SpecReplies == Init /\ [][NextReplies]_vars

\* The same with the deferred function of handleClient running to its end.
SpecSessionsLive == SpecSessions /\ \A c \in Clients : WF_vars(ClientRemove(c))

\* The encoder: Client.SendMessage writes the replies to the requests for
\* the buffer list, the lines of a buffer and the hotlist, of a store that
\* one message event to #a of libera has filled.
WireStore ==
  ErssiMessageToLine([buffers |-> <<>>, nextBufferNum |-> 1, clock |-> 1,
                      ticks |-> <<1, 1>>, ret |-> "", out |-> NoMessage],
                     MessageEvent("libera", "#a", 1)).buffers

WireMessages ==
  GetAllBuffers(WireStore, "42")
    \cup UNION {GetBufferLines(WireStore, WireStore[k].Pointer, DefaultCount, "43") :
                  k \in DOMAIN WireStore}
    \cup {GetEmptyHotlist("")}

\* weechat.Client.SendMessage: c.encoder.EncodeMessage(msg)
ClientSendMessage ==
  /\ Len(wire) < MaxWire
  /\ \E msg \in WireMessages :
       \E orders \in [DOMAIN msg.Items ->
                        IF msg.Items = <<>> THEN {}
                        ELSE RangeOrders(HDataItem(msg.Path, msg.Items[1]).Objects)] :
         wire' = Append(wire, [msg |-> msg, bytes |-> EncodeMessage(msg, orders)])
  /\ UNCHANGED <<storeVars, bridgeVars, upVars, listening, clients, cmds, outbox,
                 sockets, writers, threads>>

NextWire == ClientSendMessage

SpecWire == Init /\ [][NextWire]_vars

\* The writes on a client's socket: replies and broadcasts, each written by
\* a goroutine of its own through Client.SendMessage.

\* the messages written: the hotlist replies to two requests and the
\* broadcast _buffer_opened of a buffer the store does not hold
WriteMessages ==
  { GetEmptyHotlist("42"), GetEmptyHotlist("43"),
    GetBufferOpenedEvent(<<>>, "libera", "#a") }

\* the three writes of Encoder.EncodeMessage on e.writer: the length, the
\* compression flag, the body
EncodeWrites(msg) ==
  LET bytes == EncodeMessage(msg, <<>>) IN
  [length |-> SubSeq(bytes, 1, 4), compression |-> SubSeq(bytes, 5, 5),
   body |-> SubSeq(bytes, 6, Len(bytes))]

\* a goroutine calls client.SendMessage(msg): a reply of handleWeeChatHData
\* or handleLineRequest, or BroadcastMessage's call for this client
WriteStart(c) ==
  /\ Len(writers) < MaxWriters
  /\ \E msg \in WriteMessages :
       writers' = Append(writers, [client |-> c, msg |-> msg, pc |-> "lock",
                                   parts |-> EncodeWrites(msg)])
  /\ UNCHANGED <<storeVars, bridgeVars, upVars, listening, clients, cmds, outbox,
                 wire, sockets, threads>>

\* a mutant of WriteLock: the goroutine goes on whoever holds c.mu
WriteLockNoWait(i) ==
  /\ writers[i].pc = "lock"
  /\ writers' = [writers EXCEPT ![i].pc = "length"]
  /\ sockets' = [sockets EXCEPT ![writers[i].client].mu = i]
  /\ UNCHANGED <<storeVars, bridgeVars, upVars, listening, clients, cmds, outbox, wire,
                 threads>>

\* Client.SendMessage, c.mu.Lock(): the goroutine waits until c.mu is free
WriteLock(i) ==
  /\ writers[i].pc = "lock"
  /\ sockets[writers[i].client].mu = 0
  /\ writers' = [writers EXCEPT ![i].pc = "length"]
  /\ sockets' = [sockets EXCEPT ![writers[i].client].mu = i]
  /\ UNCHANGED <<storeVars, bridgeVars, upVars, listening, clients, cmds, outbox, wire,
                 threads>>

\* one Write of EncodeMessage on the socket
WritePart(i, part, next) ==
  /\ writers[i].pc = part
  /\ writers' = [writers EXCEPT ![i].pc = next]
  /\ sockets' = [sockets EXCEPT ![writers[i].client].written =
                                  @ \o writers[i].parts[part]]
  /\ UNCHANGED <<storeVars, bridgeVars, upVars, listening, clients, cmds, outbox, wire,
                 threads>>

\* binary.Write(e.writer, binary.BigEndian, totalLen)
WriteLength(i) == WritePart(i, "length", "compression")

\* binary.Write(e.writer, binary.BigEndian, msg.Compression)
WriteCompression(i) == WritePart(i, "compression", "body")

\* e.writer.Write(body)
WriteBody(i) == WritePart(i, "body", "unlock")

\* Client.SendMessage, the deferred c.mu.Unlock()
WriteUnlock(i) ==
  /\ writers[i].pc = "unlock"
  /\ writers' = [writers EXCEPT ![i].pc = "done"]
  /\ sockets' = [sockets EXCEPT ![writers[i].client].mu = 0]
  /\ UNCHANGED <<storeVars, bridgeVars, upVars, listening, clients, cmds, outbox, wire,
                 threads>>

NextWrites ==
  \/ \E c \in Clients : WriteStart(c)
  \/ \E i \in DOMAIN writers : WriteLock(i)
  \/ \E i \in DOMAIN writers : WriteLength(i)
  \/ \E i \in DOMAIN writers : WriteCompression(i)
  \/ \E i \in DOMAIN writers : WriteBody(i)
  \/ \E i \in DOMAIN writers : WriteUnlock(i)

SpecWrites == Init /\ [][NextWrites]_vars

\* The translator alone: its exported operations in any order, on at most
\* MaxMsgs lines, the clock advancing or not between two reads.
TranslatorBounds ==
  /\ clock' <= MaxClock
  /\ UNCHANGED <<bridgeVars, upVars, downVars, threads>>

TErssiToBufferList ==
  /\ \E d \in StateDumps :
       \E ticks \in TickSeqs(1 + DumpSize(SmallDump.servers)) :
         CallErssiToBufferList(d, ticks)
  /\ TranslatorBounds

TEnsureServerBuffer ==
  /\ \E s \in ServerTags : \E ticks \in TickSeqs(1) :
       CallEnsureServerBuffer(s, ticks)
  /\ TranslatorBounds

TEnsureBuffer ==
  /\ \E s \in ServerTags, t \in Targets : \E ticks \in TickSeqs(1) :
       CallEnsureBuffer(s, t, ticks)
  /\ TranslatorBounds

TErssiMessageToLine ==
  /\ TotalLines < MaxMsgs
  /\ \E s \in ServerTags, t \in Targets : \E ticks \in TickSeqs(2) :
       CallErssiMessageToLine(MessageEvent(s, t, TotalLines + 1), ticks)
  /\ TranslatorBounds

TErssiNicklistToWeeChat ==
  /\ \E s \in ServerTags, t \in Targets, text \in NickListTexts :
       \E ticks \in TickSeqs(1 + Len(ParseNickList(text).nicks)) :
         CallErssiNicklistToWeeChat(NicklistEvent(s, t, text),
                                    ParseNickList(text).nicks, ticks)
  /\ TranslatorBounds

NextTranslator ==
  \/ TErssiToBufferList
  \/ TEnsureServerBuffer
  \/ TEnsureBuffer
  \/ TErssiMessageToLine
  \/ TErssiNicklistToWeeChat

SpecTranslator == Init /\ [][NextTranslator]_vars

\* State dumps given to the translator again: ErssiToBufferList on any of
\* the state dumps, any number of times, between ensure calls.
Ingests(d, ticks) ==
  /\ Commit(ErssiToBufferList(Translator(ticks), d))
  /\ ingested' = ingested \cup {d}
  /\ UNCHANGED <<touched, lineLog>>

DErssiToBufferList ==
  /\ \E d \in StateDumps :
       \E ticks \in TickSeqs(1 + DumpSize(SmallDump.servers)) : Ingests(d, ticks)
  /\ TranslatorBounds

NextRedump ==
  \/ DErssiToBufferList
  \/ TEnsureServerBuffer
  \/ TEnsureBuffer

SpecRedump == Init /\ [][NextRedump]_vars

\* Buffer identity: EnsureBuffer calls, message events and nicklist events
\* for targets that differ in the case of their letters only, and for one
\* other target, the clock moving on by one tick before each read.
IdentityTargets == Targets \cup {"alice"}

IEnsureBuffer ==
  /\ \E s \in ServerTags, t \in IdentityTargets : \E ticks \in Advancing(1) :
       /\ AllAdvance(ticks, EnsureBuffer(Translator(ticks), s, t))
       /\ Commit(EnsureBuffer(Translator(ticks), s, t))
       /\ touched' = touched \cup {<<s, t>>}
  /\ UNCHANGED <<lineLog, ingested, bridgeVars, upVars, downVars, threads>>

IErssiMessageToLine ==
  /\ TotalLines < MaxMsgs
  /\ \E s \in ServerTags, t \in IdentityTargets : \E ticks \in Advancing(2) :
       LET m == TargetedEvent(s, t, TotalLines + 1)
           T == ErssiMessageToLine(Translator(ticks), m)
       IN  /\ AllAdvance(ticks, T)
           /\ Commit(T)
           /\ touched' = touched \cup {<<s, t>>}
           /\ lineLog' = (EventKey(m) :> Append(LogOf(lineLog, EventKey(m)),
                                                T.out.Items[1])) @@ lineLog
  /\ UNCHANGED <<ingested, bridgeVars, upVars, downVars, threads>>

IErssiNicklistToWeeChat ==
  /\ \E s \in ServerTags, t \in IdentityTargets : \E ticks \in Advancing(1) :
       LET T == ErssiNicklistToWeeChat(Translator(ticks), NicklistEvent(s, t, "[]"), <<>>)
       IN  /\ AllAdvance(ticks, T)
           /\ Commit(T)
           /\ touched' = touched \cup {<<s, t>>}
  /\ UNCHANGED <<lineLog, ingested, bridgeVars, upVars, downVars, threads>>

NextIdentity ==
  \/ IEnsureBuffer
  \/ IErssiMessageToLine
  \/ IErssiNicklistToWeeChat

SpecIdentity == Init /\ [][NextIdentity]_vars

\* One buffer filled past its capacity: MaxAppend messages to one target,
\* the clock moving on by one tick before each read.
LAppendLine ==
  /\ TotalLines < MaxAppend
  /\ \E ticks \in Advancing(2) :
       /\ AllAdvance(ticks, ErssiMessageToLine(Translator(ticks),
                                              MessageEvent("libera", "#foo", TotalLines + 1)))
       /\ CallErssiMessageToLine(MessageEvent("libera", "#foo", TotalLines + 1), ticks)
  /\ UNCHANGED <<bridgeVars, upVars, downVars, threads>>

NextLines == LAppendLine

SpecLines == Init /\ [][NextLines]_vars

\* ------------------------------------------------------------------------
\* Properties of the translator (SpecTranslator, SpecLines).

\* the objects that carry a pointer: the buffers, their lines, their nicks
Objects ==
  {<<"buffer", k, 0>> : k \in DOMAIN buffers}
    \cup UNION {{<<"line", k, i>> : i \in DOMAIN buffers[k].Lines} : k \in DOMAIN buffers}
    \cup UNION {{<<"nick", k, i>> : i \in DOMAIN buffers[k].Nicks} : k \in DOMAIN buffers}

PointerOf(o) ==
  CASE o[1] = "buffer" -> buffers[o[2]].Pointer
    [] o[1] = "line" -> buffers[o[2]].Lines[o[3]].Pointer
    [] o[1] = "nick" -> buffers[o[2]].Nicks[o[3]].Pointer

\* the buffers that stand for (serverTag, target), whatever the case of
\* the target's letters
BuffersFor(serverTag, target) ==
  {k \in DOMAIN buffers :
     /\ ~buffers[k].IsServer
     /\ buffers[k].ServerTag = serverTag
     /\ ToLower(buffers[k].ShortName) = ToLower(target)}

\* the n newest of a sequence of lines, oldest first
Newest(lines, n) ==
  IF Len(lines) > n THEN SubSeq(lines, Len(lines) - n + 1, Len(lines)) ELSE lines

\* C5, as claimed: the numbers of the buffers in the store are pairwise
\* distinct and are exactly 1..N for N buffers, and the core buffer, when
\* there is one, has number 1.
C5_NumbersContiguous ==
  /\ \A j, k \in DOMAIN buffers : j # k => buffers[j].Number # buffers[k].Number
  /\ {buffers[k].Number : k \in DOMAIN buffers} = 1..Cardinality(DOMAIN buffers)
  /\ "core" \in DOMAIN buffers => buffers["core"].Number = 1

\* C7, as claimed: the pointers of all buffers, lines and nicks in the store
\* are pairwise distinct, whether the clock moved between two calls of
\* generatePointer or not.
C7_PointersDistinct ==
  \A o1, o2 \in Objects : o1 # o2 => PointerOf(o1) # PointerOf(o2)

\* C8, as claimed: no step removes a buffer from the store or changes the
\* pointer or the number of a buffer that is in it.
C8_BuffersStable ==
  [][\A k \in DOMAIN buffers :
       /\ k \in DOMAIN buffers'
       /\ buffers'[k].Pointer = buffers[k].Pointer
       /\ buffers'[k].Number = buffers[k].Number]_vars

\* C9: for every (server_tag, target) an EnsureBuffer call, a message event
\* or a nicklist event has named, exactly one buffer stands for the
\* server_tag and the lowercased target, and it holds every line of the
\* message events to that server_tag and lowercased target, in order.
C9_CaseInsensitiveIdentity ==
  \A st \in touched :
    /\ Cardinality(BuffersFor(st[1], st[2])) = 1
    /\ \A k \in BuffersFor(st[1], st[2]) :
         buffers[k].Lines = Newest(LogOf(lineLog, st[1] \o "." \o ToLower(st[2])), 500)

\* C9's case: messages to #Foo, #foo and #FOO have given one buffer with
\* their three lines.
C9_Witness ==
  \E k \in DOMAIN buffers :
    /\ BuffersFor("libera", "#Foo") = {k}
    /\ [i \in DOMAIN buffers[k].Lines |-> buffers[k].Lines[i].Message]
         = <<"hello #Foo", "hello #foo", "hello #FOO">>

\* C10: every buffer holds at most 500 lines, and they are the 500 newest
\* of the lines appended to it, oldest first.
C10_NewestLinesKept ==
  /\ \A k \in DOMAIN buffers : Len(buffers[k].Lines) <= 500
  /\ \A key \in DOMAIN lineLog :
       /\ key \in DOMAIN buffers
       /\ buffers[key].Lines = Newest(lineLog[key], 500)

\* C10's case: more than 500 lines have been appended to a buffer, which
\* holds 500 and no longer the first.
C10_Witness ==
  \E key \in DOMAIN lineLog :
    /\ Len(lineLog[key]) > 500
    /\ Len(buffers[key].Lines) = 500
    /\ buffers[key].Lines[1] = lineLog[key][Len(lineLog[key]) - 499]
    /\ buffers[key].Lines[1] # lineLog[key][1]

\* ------------------------------------------------------------------------
\* Properties of the bridge (SpecDownstream, SpecUpstream).

\* the sync_server requests written on the upstream connection
SyncServerSent == {n \in DOMAIN sent : sent[n].Type = "sync_server"}

\* the init handlers that found the flag unset, and so make the request
InitRequesters == {i \in DOMAIN cmds : cmds[i].cmd = "init" /\ cmds[i].needsStateDump}

\* C1, as claimed: in a running bridge, once the handler of an init has run
\* to its end, exactly one sync_server request has been sent upstream.
C1_ExactlyOneSyncServer ==
  (phase = "running" /\ \E i \in DOMAIN cmds : cmds[i].cmd = "init" /\ cmds[i].pc = "done")
    => Cardinality(SyncServerSent) = 1

\* C1, amended: at most one sync_server request is sent upstream; at most
\* one init handler, the first to reach the flag, makes the request, and
\* the request is sent exactly when that handler's write succeeds.
C1_AtMostOneSyncServer ==
  /\ Cardinality(SyncServerSent) <= 1
  /\ Cardinality(InitRequesters) <= 1
  /\ Cardinality(SyncServerSent)
       = Cardinality({i \in InitRequesters : cmds[i].pc = "done" /\ ~cmds[i].err})

\* C1's case: two clients have each sent init, both handlers have run to
\* their end, and one sync_server request has been sent.
C1_Witness ==
  /\ Cardinality(SyncServerSent) = 1
  /\ \E i, j \in DOMAIN cmds :
       /\ cmds[i].client # cmds[j].client
       /\ cmds[i].cmd = "init" /\ cmds[i].pc = "done"
       /\ cmds[j].cmd = "init" /\ cmds[j].pc = "done"

\* C2, as claimed: the handler of a frame starts only when the handlers of
\* all frames read before it have run to their end.
C2_HandledInReceiveOrder ==
  \A i, j \in DOMAIN tasks :
    (i < j /\ tasks[j].pc # "start") => tasks[i].pc = "done"

\* C3: at every step it has taken, the handler of the i-th frame has read
\* the field values of the i-th frame the read loop parsed.
C3_HandlerSeesOwnFrame ==
  \A i \in DOMAIN tasks : tasks[i].pc # "start" => tasks[i].seen = received[i]

\* C3's case: a handler has taken a step after the read loop had parsed a
\* later, different frame.
C3_Witness ==
  \E i \in DOMAIN tasks :
    /\ tasks[i].pc # "start"
    /\ tasks[i].parsed > i
    /\ received[tasks[i].parsed] # received[i]

\* the state_dump of one server libera with channels #a, #b and query alice
\* is the only frame read, and its handler has run to its end
LiberaDumpHandled ==
  /\ Len(tasks) = 1
  /\ received[1].Type = "state_dump"
  /\ received[1].ExtraData = LiberaDump
  /\ tasks[1].pc = "done"

\* C4, as claimed: after that state_dump the reply to
\* hdata buffer:gui_buffers(*) lists core.weechat, libera.#a, libera.#b and
\* libera.alice in that order, numbered 1, 2, 3, 4.
C4_StateDumpBufferList ==
  LiberaDumpHandled =>
    \A reply \in GetAllBuffers(buffers, "42") :
      /\ [i \in DOMAIN reply.Items |-> reply.Items[i].Name]
           = <<"core.weechat", "libera.#a", "libera.#b", "libera.alice">>
      /\ [i \in DOMAIN reply.Items |-> reply.Items[i].Number] = <<1, 2, 3, 4>>

\* C6, as claimed: once the handler of a state_dump has run to its end the
\* store holds exactly one core buffer, which has number 1 and is reported
\* with type=server.
C6_OneCoreBuffer ==
  (\E i \in DOMAIN tasks : received[i].Type = "state_dump" /\ tasks[i].pc = "done")
    => LET core == {k \in DOMAIN buffers : buffers[k].Name = "core.weechat"} IN
       /\ Cardinality(core) = 1
       /\ \A k \in core : buffers[k].Number = 1 /\ localVars(buffers[k]) = "type=server"

\* ------------------------------------------------------------------------
\* Properties of the handlers of upstream events (SpecUpstream, SpecDumpEnd).

\* m is a lines hda of one system line with the given text
IsSystemLine(m, text) ==
  /\ m.Path = "line_data"
  /\ Len(m.Items) = 1
  /\ m.Items[1].Prefix = "--"
  /\ m.Items[1].Message = text

\* the text of the system line of a channel_join or channel_part event
JoinPartText(m) ==
  IF m.Type = "channel_join" THEN m.Nick \o " has joined " \o m.Target
  ELSE IF m.Text = "" THEN m.Nick \o " has left " \o m.Target
  ELSE m.Nick \o " has left " \o m.Target \o " (" \o m.Text \o ")"

\* the handlers of channel_part events, and of channel_join events handled
\* outside a state dump, that have run to their end
LiveJoinParts ==
  {i \in DOMAIN tasks :
     /\ tasks[i].pc = "done"
     /\ \/ received[i].Type = "channel_part"
        \/ received[i].Type = "channel_join" /\ ~tasks[i].inStateDump}

\* the handler of task i appended one system line to the buffer of its
\* event, and broadcast that line and nothing else
OneLineBroadcast(i) ==
  LET key == getBufferKey(received[i].ServerTag, received[i].Target) IN
  /\ Len(tasks[i].cast) = 1
  /\ IsSystemLine(tasks[i].cast[1], JoinPartText(received[i]))
  /\ key \in DOMAIN buffers
  /\ tasks[i].cast[1].Items[1].BufferPtr = buffers[key].Pointer
  /\ Cardinality({n \in DOMAIN buffers[key].Lines :
                    buffers[key].Lines[n] = tasks[i].cast[1].Items[1]}) = 1

\* the lines the handlers have had translated, and the nick-list requests
\* they have had written
LinesTranslated ==
  {<<i, n>> \in (DOMAIN tasks) \X (1..2) :
     \/ n \in DOMAIN tasks[i].cast /\ tasks[i].cast[n].Path = "line_data"
     \/ n = 1 /\ tasks[i].pc = "broadcast" /\ tasks[i].out.Path = "line_data"}
NicklistsWritten ==
  {<<i, n>> \in (DOMAIN tasks) \X (1..2) :
     n \in DOMAIN tasks[i].asked /\ tasks[i].asked[n].ok}

\* C16, as claimed: a channel_join read after a state_dump of its server,
\* with only state_dump and channel_join frames read in between, only
\* declares its buffer: its handler appends no line, broadcasts nothing and
\* requests no nick list, and the buffer exists when it has run to its end.
C16_JoinInDumpDeclaresOnly ==
  \A i, j \in DOMAIN tasks :
    ( /\ i < j
      /\ received[i].Type = "state_dump"
      /\ received[j].Type = "channel_join"
      /\ received[j].ServerTag = received[i].ServerTag
      /\ \A k \in (i + 1)..(j - 1) : received[k].Type \in {"state_dump", "channel_join"} )
    => /\ tasks[j].pc \in {"start", "ensure_buffer", "done"}
       /\ tasks[j].cast = <<>>
       /\ tasks[j].asked = <<>>
       /\ tasks[j].pc = "done" =>
            getBufferKey(received[j].ServerTag, received[j].Target) \in DOMAIN buffers

\* C17, as claimed: in a running bridge, once the handler of a channel_part
\* event, or of a channel_join event handled outside a state dump, has run
\* to its end, it has appended one system line with prefix "--" and the event's text to
\* the target buffer, has broadcast it, and has sent one nick-list request
\* with the event's server_tag and target upstream.
C17_OneLineOneNicklistSent ==
  \A i \in LiveJoinParts :
    phase = "running" =>
    /\ OneLineBroadcast(i)
    /\ Len(tasks[i].asked) = 1
    /\ tasks[i].asked[1].ok
    /\ \E n \in DOMAIN sent :
         /\ sent[n].Type = "nicklist"
         /\ sent[n].ServerTag = received[i].ServerTag
         /\ sent[n].Target = received[i].Target

\* C17, amended: such a handler has appended one system line with prefix
\* "--" and the event's text to the target buffer, has broadcast it, and
\* has afterwards made one attempt to send a nick-list request with the
\* event's server_tag and target; the requests written upstream are those
\* of the attempts whose write succeeded, and the lines stored are one for
\* each line translated.
C17_OneLineOneNicklistAttempt ==
  /\ \A i \in LiveJoinParts :
       /\ OneLineBroadcast(i)
       /\ Len(tasks[i].asked) = 1
       /\ tasks[i].asked[1].req.Type = "nicklist"
       /\ tasks[i].asked[1].req.ServerTag = received[i].ServerTag
       /\ tasks[i].asked[1].req.Target = received[i].Target
  /\ \A i \in DOMAIN tasks : tasks[i].asked # <<>> => tasks[i].cast # <<>>
  /\ Cardinality({n \in DOMAIN sent : sent[n].Type = "nicklist"})
       = Cardinality(NicklistsWritten)
  /\ \A n \in DOMAIN sent :
       sent[n].Type = "nicklist" =>
         \E i \in DOMAIN tasks :
           /\ tasks[i].asked # <<>>
           /\ sent[n].ServerTag = received[i].ServerTag
           /\ sent[n].Target = received[i].Target
  /\ TotalLines = Cardinality(LinesTranslated)

\* C17's case: a channel_join handled outside a state dump and a
\* channel_part have both run to their end, each with its nick-list request
\* written.
C17_Witness ==
  \E i, j \in LiveJoinParts :
    /\ received[i].Type = "channel_join"
    /\ received[j].Type = "channel_part"
    /\ tasks[i].asked[1].ok
    /\ tasks[j].asked[1].ok
    /\ Len(sent) = 2

\* C18, as claimed: a channel_join whose handler begins after the handler
\* of a state_dump of its server has run to its end, and after it the
\* handler of an event that is neither state_dump nor channel_join, is
\* handled as a live join: a "has joined" line is appended and broadcast
\* and a nick-list request is made.
C18_DumpEndsImplicitly ==
  \A j \in DOMAIN tasks :
    ( /\ received[j].Type = "channel_join"
      /\ tasks[j].afterEnd
      /\ tasks[j].pc = "done" )
    => /\ ~tasks[j].inStateDump
       /\ Len(tasks[j].cast) = 1
       /\ IsSystemLine(tasks[j].cast[1], JoinPartText(received[j]))
       /\ Len(tasks[j].asked) = 1

\* C19, as claimed: when the handler of an event for (server_tag, target),
\* begun after a state_dump of the server was handled, has created the
\* buffer and has run to its end, it has broadcast an hda with id
\* _buffer_opened that holds that buffer and no other.
C19_CreationAnnounced ==
  \A i \in DOMAIN tasks :
    ( /\ tasks[i].pc = "done"
      /\ tasks[i].afterDump
      /\ tasks[i].made # "" )
    => \E n \in DOMAIN tasks[i].cast :
         /\ tasks[i].cast[n].ID = "_buffer_opened"
         /\ Len(tasks[i].cast[n].Items) = 1
         /\ tasks[i].cast[n].Items[1].Pointer = buffers[tasks[i].made].Pointer

\* C20, as claimed: once the handler of a topic event with text T has run
\* to its end, it has broadcast the topic's system line and then one
\* _buffer_opened hda that holds the target buffer alone, with title T.
C20_TopicAnnounced ==
  \A i \in DOMAIN tasks :
    (received[i].Type = "topic" /\ tasks[i].pc = "done")
    => LET key == getBufferKey(received[i].ServerTag, received[i].Target) IN
       /\ Len(tasks[i].cast) = 2
       /\ IsSystemLine(tasks[i].cast[1],
                       IF received[i].Nick = "" THEN "Topic: " \o received[i].Text
                       ELSE received[i].Nick \o " has changed topic to: "
                              \o received[i].Text)
       /\ tasks[i].cast[2].ID = "_buffer_opened"
       /\ Len(tasks[i].cast[2].Items) = 1
       /\ tasks[i].cast[2].Items[1].Pointer = buffers[key].Pointer
       /\ tasks[i].cast[2].Items[1].Title = received[i].Text

\* ------------------------------------------------------------------------
\* Properties of the replies to downstream requests (SpecRequests).

\* the N of the last_line(N) of an hdata path
LastLineArg(path) ==
  LET r == SubSeq(path, Index(path, "last_line(") + 10, Len(path))
  IN  Atoi(SubSeq(r, 1, Index(r, ")") - 1))

\* the smaller of |n| and len
MinAbs(n, len) ==
  LET a == IF n < 0 THEN 0 - n ELSE n IN IF a < len THEN a ELSE len

\* the command of goroutine i is an hdata for <ptr>/lines/last_line(N), with
\* <ptr> the pointer of buffer k of the store
AsksLastLines(i, k) ==
  /\ cmds[i].cmd = "hdata"
  /\ Len(cmds[i].args) >= 1
  /\ Index(cmds[i].args[1], "/lines/last_line(") > 0
  /\ HasPrefix(cmds[i].args[1], "buffer:" \o buffers[k].Pointer \o "/")

\* C11: when the handler of `hdata buffer:<ptr>/lines/last_line(N)` builds
\* its reply and <ptr> is a buffer of L lines, the reply's items are the
\* last min(|N|, L) lines of that buffer, oldest first.
C11_LastLinesReturned ==
  [][\A i \in DOMAIN cmds : \A k \in DOMAIN buffers :
       (AsksLastLines(i, k) /\ cmds[i].pc = "start" /\ cmds'[i].pc # "start")
         => /\ cmds'[i].pc = "reply"
            /\ cmds'[i].out.Path = "line_data"
            /\ cmds'[i].out.Items
                 = Newest(buffers[k].Lines,
                          MinAbs(LastLineArg(cmds[i].args[1]), Len(buffers[k].Lines)))]_vars

\* the command line of goroutine i carries its client's correlation id
CarriesID(i) == HasPrefix(cmds[i].line, "(" \o ClientID[cmds[i].client] \o ") ")

\* the Path of the reply to an hdata request
ReplyPath(path) ==
  IF HasPrefix(path, "buffer:gui_buffers") THEN "buffer"
  ELSE IF HasPrefix(path, "hotlist:") THEN "hotlist"
  ELSE "line_data"

\* C12: a step that writes a direct reply writes it to the client that sent
\* the request and to no other, and a reply to a request that carried a
\* correlation id has that id in its message-ID field: the htb of a
\* handshake, and the hda of an hdata request for the buffer list, the
\* hotlist or the lines of a buffer.
C12_ReplyEchoesIdToRequester ==
  [][/\ \A i \in DOMAIN cmds :
          (cmds[i].pc = "reply" /\ cmds'[i].pc = "done"
             /\ clients[cmds[i].client].state = "active")
            => outbox'[cmds[i].client] = Append(outbox[cmds[i].client], cmds[i].out)
     /\ \A c \in Clients :
          outbox'[c] # outbox[c]
            => LET m == outbox'[c][Len(outbox'[c])] IN
               /\ outbox'[c] = Append(outbox[c], m)
               /\ \A d \in Clients \ {c} : outbox'[d] = outbox[d]
               /\ \/ /\ m.Type = "htb"
                     /\ cmds' = cmds
                     /\ m.ID = ClientID[c]
                  \/ \E i \in DOMAIN cmds :
                       /\ cmds[i].client = c
                       /\ cmds[i].pc = "reply" /\ cmds'[i].pc = "done"
                       /\ m = cmds[i].out
                       /\ m.Type = "hda"
                       /\ m.Path = ReplyPath(cmds[i].args[1])
                       /\ CarriesID(i) => m.ID = ClientID[c]]_vars

\* C12's case: two clients are connected; a request of one, carrying its
\* correlation id, has been answered with an hda, and the other client has
\* been written nothing.
C12_Witness ==
  \E i \in DOMAIN cmds : \E d \in Clients \ {cmds[i].client} :
    /\ CarriesID(i)
    /\ cmds[i].cmd = "hdata" /\ cmds[i].pc = "done"
    /\ outbox[cmds[i].client] = <<cmds[i].out>>
    /\ cmds[i].out.ID = ClientID[cmds[i].client]
    /\ clients[d].state = "active"
    /\ outbox[d] = <<>>

\* the target of a buffer names a channel
IsChannelName(target) == target # "" /\ CharAt(target, 1) \in {"#", "&"}

\* the local_variables of buffer k by its kind
KindVariables(k) ==
  IF buffers[k].IsServer THEN "type=server"
  ELSE IF IsChannelName(buffers[k].ShortName)
  THEN "type=channel,server=" \o buffers[k].ServerTag
  ELSE "type=private,server=" \o buffers[k].ServerTag

\* C15: when the handler of `hdata buffer:gui_buffers(*)` builds its reply,
\* every buffer of the store is one item of it, the numbers ascend, and an
\* item's local_variables are type=server, type=channel,server=<tag> or
\* type=private,server=<tag> by the kind of its buffer.
C15_BufferListTyped ==
  [][\A i \in DOMAIN cmds :
       (cmds[i].cmd = "hdata" /\ cmds[i].args[1] = BuffersPath
          /\ cmds[i].pc = "start" /\ cmds'[i].pc # "start")
         => LET items == cmds'[i].out.Items IN
            /\ Len(items) = Cardinality(DOMAIN buffers)
            /\ \A k \in DOMAIN buffers :
                 \E n \in DOMAIN items :
                   /\ items[n].Pointer = buffers[k].Pointer
                   /\ items[n].Name = buffers[k].Name
                   /\ items[n].LocalVariables = KindVariables(k)
            /\ \A m, n \in DOMAIN items : m < n => items[m].Number < items[n].Number]_vars

\* ------------------------------------------------------------------------
\* Properties of the bytes on the downstream wire (SpecWire): a message is
\* read back from its bytes as the relay protocol lays them out.

\* the character of a byte
Chr(b) == IF b \in 32..126 THEN CharAt(Ascii, b - 31) ELSE "?"

\* the string of a sequence of bytes
RECURSIVE Chars(_)
Chars(bs) == IF bs = <<>> THEN "" ELSE Chr(Head(bs)) \o Chars(Tail(bs))

\* the pieces of s between the occurrences of the character sep
RECURSIVE Split(_, _)
Split(s, sep) ==
  IF Index(s, sep) = 0 THEN <<s>>
  ELSE <<SubSeq(s, 1, Index(s, sep) - 1)>>
         \o Split(SubSeq(s, Index(s, sep) + 1, Len(s)), sep)

\* the keys an hda declares, in order, each with its type
DeclaredKeys(keys) ==
  LET parts == Split(keys, ",") IN
  [j \in 1..Len(parts) |-> [Name |-> Split(parts[j], ":")[1],
                            Type |-> Split(parts[j], ":")[2]]]

Undecoded == [ok |-> FALSE, value |-> "", next |-> 0]

\* the 32-bit integer in the four bytes from pos
Int32At(bs, pos) ==
  IF pos + 3 > Len(bs) THEN Undecoded
  ELSE LET low == bs[pos + 1] * 65536 + bs[pos + 2] * 256 + bs[pos + 3] IN
       [ok |-> TRUE, next |-> pos + 4,
        value |-> IF bs[pos] >= 128
                  THEN ((bs[pos] - 128) * 16777216 + low) - 2147483647 - 1
                  ELSE bs[pos] * 16777216 + low]

\* the text of n bytes from pos
TextAt(bs, pos, n) ==
  IF n < 0 \/ pos + n - 1 > Len(bs) THEN Undecoded
  ELSE [ok |-> TRUE, next |-> pos + n, value |-> Chars(SubSeq(bs, pos, pos + n - 1))]

\* the object of the given type read from pos: an int is four bytes, a str
\* a 32-bit length and its bytes, a ptr and a tim one length byte and their
\* bytes (a tim is read as the number its decimal digits spell)
DecodeAt(bs, pos, type) ==
  CASE type = "int" -> Int32At(bs, pos)
    [] type = "str" -> IF Int32At(bs, pos).ok
                       THEN TextAt(bs, pos + 4, Int32At(bs, pos).value)
                       ELSE Undecoded
    [] type = "ptr" -> IF pos > Len(bs) THEN Undecoded
                       ELSE TextAt(bs, pos + 1, bs[pos])
    [] type = "tim" -> IF pos > Len(bs) \/ ~TextAt(bs, pos + 1, bs[pos]).ok
                       THEN Undecoded
                       ELSE [TextAt(bs, pos + 1, bs[pos]) EXCEPT !.value = Atoi(@)]
    [] OTHER -> Undecoded

\* the objects of the given types read one after the other from pos
RECURSIVE DecodeObjects(_, _, _)
DecodeObjects(bs, pos, types) ==
  IF types = <<>> THEN [ok |-> TRUE, values |-> <<>>, next |-> pos]
  ELSE LET d == DecodeAt(bs, pos, Head(types)) IN
       IF ~d.ok THEN [ok |-> FALSE, values |-> <<>>, next |-> 0]
       ELSE LET rest == DecodeObjects(bs, d.next, Tail(types)) IN
            [ok |-> rest.ok, values |-> <<d.value>> \o rest.values, next |-> rest.next]

\* the head of an encoded hda message: length, compression byte, message
\* ID, the type hda, path, keys and count; next is where its items start
DecodeHead(bs) ==
  LET length == Int32At(bs, 1)
      id == DecodeAt(bs, 6, "str")
      type == IF id.ok THEN TextAt(bs, id.next, 3) ELSE Undecoded
      rest == IF type.ok THEN DecodeObjects(bs, type.next, <<"str", "str", "int">>)
              ELSE [ok |-> FALSE, values |-> <<>>, next |-> 0]
  IN  IF length.ok /\ length.value = Len(bs) /\ rest.ok /\ type.value = "hda"
      THEN [ok |-> TRUE, ID |-> id.value, Path |-> rest.values[1],
            Keys |-> rest.values[2], Count |-> rest.values[3], next |-> rest.next]
      ELSE [ok |-> FALSE, ID |-> "", Path |-> "", Keys |-> "", Count |-> 0, next |-> 0]

\* the items of an encoded hda from pos: each a pointer and then one
\* object for each declared key, by its declared type
RECURSIVE DecodeItems(_, _, _, _)
DecodeItems(bs, pos, count, keys) ==
  IF count = 0 THEN [ok |-> pos = Len(bs) + 1, items |-> <<>>]
  ELSE LET d == DecodeObjects(bs, pos,
                              <<"ptr">> \o [j \in 1..Len(keys) |-> keys[j].Type])
       IN  IF ~d.ok THEN [ok |-> FALSE, items |-> <<>>]
           ELSE LET rest == DecodeItems(bs, d.next, count - 1, keys) IN
                [ok |-> rest.ok, items |-> <<d.values>> \o rest.items]

\* the value of a declared key in item n of a message
ValueOf(msg, n, name) == HDataItem(msg.Path, msg.Items[n]).Objects[name].Value

\* C13: every hda message written reads back from its bytes, each item
\* object by object in the order and by the types of the declared keys, as
\* the keys string, the count of items and, for every item and every
\* declared key, the value the message holds for that key.
C13_PayloadsInKeyOrder ==
  \A n \in DOMAIN wire :
    LET msg == wire[n].msg
        head == DecodeHead(wire[n].bytes)
        keys == DeclaredKeys(msg.Keys)
        read == DecodeItems(wire[n].bytes, head.next, Len(msg.Items), keys)
    IN  msg.Type = "hda"
          => /\ head.ok
             /\ head.Keys = msg.Keys
             /\ head.Count = Len(msg.Items)
             /\ read.ok
             /\ \A i \in DOMAIN msg.Items : \A j \in DOMAIN keys :
                  read.items[i][j + 1] = ValueOf(msg, i, keys[j].Name)

\* s is made of hex digits only
OnlyHex(s) == \A i \in 1..Len(s) : Index(HexDigits, CharAt(s, i)) > 0

\* C14: the pointer of the first item of every hda message written is, on
\* the wire, one length byte and then the hex digits of the store's pointer
\* without its 0x; and so is every pointer read from the bytes of a message
\* whose items read back in the declared order.
C14_PointersWithoutPrefix ==
  \A n \in DOMAIN wire :
    LET msg == wire[n].msg
        head == DecodeHead(wire[n].bytes)
        keys == DeclaredKeys(msg.Keys)
        first == DecodeAt(wire[n].bytes, head.next, "ptr")
        read == DecodeItems(wire[n].bytes, head.next, Len(msg.Items), keys)
    IN  (msg.Type = "hda" /\ msg.Items # <<>>)
          => /\ head.ok
             /\ first.ok
             /\ OnlyHex(first.value)
             /\ "0x" \o first.value = msg.Items[1].Pointer
             /\ read.ok
                  => \A i \in DOMAIN msg.Items : \A j \in DOMAIN keys :
                       keys[j].Type = "ptr" => OnlyHex(read.items[i][j + 1])

\* ------------------------------------------------------------------------
\* Properties of the input commands (SpecInput).

\* the command of goroutine i is an input naming the pointer of buffer k,
\* a channel or query buffer
InputsTo(i, k) ==
  /\ cmds[i].cmd = "input"
  /\ Len(cmds[i].args) >= 2
  /\ cmds[i].args[1] = buffers[k].Pointer
  /\ ~buffers[k].IsServer

\* the text of an input command line: what follows "input <ptr> "
InputText(i) ==
  SubSeq(cmds[i].line, Len("input " \o cmds[i].args[1] \o " ") + 1, Len(cmds[i].line))

\* the upstream messages of type message
MessagesSent(log) == {n \in DOMAIN log : log[n].Type = "message"}

\* C21: with the upstream connection open, the handler of an input naming
\* the pointer of a channel or query buffer created for (s, t) ends by
\* writing upstream one message of type message with server_tag s, a target
\* equal to t up to letter case and the text of the command; no other step
\* writes a message of that type.
C21_InputReachesUpstream ==
  [][/\ \A i \in DOMAIN cmds : \A k \in DOMAIN buffers :
          (InputsTo(i, k) /\ conn = "open"
             /\ cmds[i].pc # "done" /\ cmds'[i].pc = "done")
            => /\ Len(sent') = Len(sent) + 1
               /\ sent'[Len(sent')].Type = "message"
               /\ sent'[Len(sent')].ServerTag = buffers[k].ServerTag
               /\ ToLower(sent'[Len(sent')].Target) = ToLower(buffers[k].ShortName)
               /\ sent'[Len(sent')].Text = InputText(i)
     /\ MessagesSent(sent') # MessagesSent(sent)
          => \E i \in DOMAIN cmds :
               cmds[i].cmd = "input" /\ cmds[i].pc # "done" /\ cmds'[i].pc = "done"]_vars

\* C22: the handler of an input naming a pointer of no buffer ends at its
\* lookup: that step writes nothing upstream and nothing to a client and
\* leaves the store and the clients as they are; and a handler that has
\* ended takes no further step.
C22_UnknownPointerIgnored ==
  [][\A i \in DOMAIN cmds :
       /\ (/\ cmds[i].cmd = "input" /\ Len(cmds[i].args) >= 2
           /\ \A k \in DOMAIN buffers : buffers[k].Pointer # cmds[i].args[1]
           /\ cmds[i].pc = "start" /\ cmds'[i].pc # "start")
            => /\ cmds'[i].pc = "done"
               /\ sent' = sent
               /\ outbox' = outbox
               /\ buffers' = buffers /\ nextBufferNum' = nextBufferNum
               /\ clients' = clients
       /\ cmds[i].pc = "done" => cmds'[i] = cmds[i]]_vars

\* C22's case: with buffers in the store, the handler of an input naming
\* the pointer of none of them has ended; nothing has been written upstream
\* but the first init's request, and its client is still connected.
C22_Witness ==
  \E i \in DOMAIN cmds :
    /\ cmds[i].cmd = "input" /\ cmds[i].args[1] = UnknownPointer
    /\ cmds[i].pc = "done"
    /\ buffers # <<>>
    /\ \A k \in DOMAIN buffers : buffers[k].Pointer # UnknownPointer
    /\ MessagesSent(sent) = {}
    /\ outbox[cmds[i].client] = <<>>
    /\ clients[cmds[i].client].state = "active"

\* ------------------------------------------------------------------------
\* Properties of the clients' sessions (SpecSessions, SpecCommands).

C26_MalformedLineDropped ==
  [][\A c \in Clients : ClientMalformed(c) => clients'[c].state = "active"]_vars

\* C30: a client is in the active set from accept until its read loop has
\* ended; a read error, the end of the input or quit closes its socket, and
\* the client is then removed from the active set; nothing is written to a
\* client after its removal.
C30_ActiveUntilReadLoopEnds ==
  /\ [][\A c \in Clients :
          /\ Accept(c) => clients'[c].state = "active"
          /\ (ClientQuit(c) \/ ClientReadEnd(c)) => clients'[c].state = "closing"
          /\ Registered(c) /\ clients'[c].state \notin {"active", "closing"}
               => clients[c].state = "closing" /\ clients'[c].state = "closed"
          /\ clients[c].state = "closed"
               => clients'[c].state = "closed" /\ outbox'[c] = outbox[c]]_vars
  /\ \A c \in Clients :
       (clients[c].state = "closing") ~> (clients[c].state = "closed")

\* C30, the case: a client that had sent init has been removed, a broadcast
\* has been made and the client holds nothing.
C30_Witness ==
  \E c \in Clients : \E i \in DOMAIN tasks :
    /\ clients[c].state = "closed" /\ clients[c].authenticated
    /\ tasks[i].cast # <<>>
    /\ outbox[c] = <<>>

\* C27: neither the server's handling of init nor the bridge's goroutine
\* for it writes to a client; a buffer list written to a client (no
\* broadcast is made in SpecCommands) is the reply to that client's own
\* hdata buffer:gui_buffers(*) request.
C27_InitWritesNothing ==
  [][/\ \A c \in Clients : ClientInit(c) => outbox' = outbox
     /\ \A i \in DOMAIN cmds :
          cmds[i].cmd = "init" /\ cmds'[i] # cmds[i] => outbox' = outbox
     /\ \A c \in Clients :
          /\ outbox'[c] # outbox[c]
          /\ outbox'[c][Len(outbox'[c])].Path = "buffer"
          => \E i \in DOMAIN cmds :
               /\ cmds[i].client = c /\ cmds[i].cmd = "hdata"
               /\ ParseHDataCommand(cmds[i].args).path = BuffersPath
               /\ cmds[i].pc = "reply" /\ cmds'[i].pc = "done"
               /\ outbox'[c] = Append(outbox[c], cmds[i].out)]_vars

\* C27, the case: with buffers in the store a client's init has been
\* handled to its end; the one message the client holds is the buffer list
\* it asked for.
C27_Witness ==
  \E i \in DOMAIN cmds :
    LET box == outbox[cmds[i].client] IN
    /\ cmds[i].cmd = "init" /\ cmds[i].pc = "done"
    /\ Len(box) = 1 /\ box[1].Path = "buffer" /\ box[1].Items # <<>>

\* ------------------------------------------------------------------------
\* Properties of a repeated state dump (SpecRedump).

\* C28: ErssiToBufferList given a state dump it has been given before
\* leaves the store with the same buffers, each with the number and the
\* pointer it had.
C28_SecondDumpKeepsIdentity ==
  [][\A d \in ingested : \A ticks \in TickSeqs(1 + DumpSize(SmallDump.servers)) :
       Ingests(d, ticks) =>
         /\ DOMAIN buffers' = DOMAIN buffers
         /\ \A k \in DOMAIN buffers :
              /\ buffers'[k].Number = buffers[k].Number
              /\ buffers'[k].Pointer = buffers[k].Pointer]_vars

\* ------------------------------------------------------------------------
\* Properties of the read loop (SpecReadLoop).

\* the frame the read loop dropped last
LastDropped(log) == log[Len(log)]

\* C29: a frame is dropped exactly when it is a binary frame shorter than
\* 28 bytes or with a tag that does not authenticate, or its payload is not
\* JSON; for a dropped frame no handler is started and the store is
\* unchanged, the connection stays open, and no message of a frame that
\* fails is ever handed to a handler; every other frame read starts one.
C29_BadFrameDropped ==
  /\ [][(dropped' # dropped \/ received' # received) =>
          IF dropped' # dropped
          THEN LET w == LastDropped(dropped').frame IN
               /\ \/ w.binary /\ (w.size < 28 \/ ~w.authentic)
                  \/ ~w.valid
               /\ UNCHANGED <<tasks, received, loopMsg, storeVars, outbox, sent>>
               /\ conn' = "open"
          ELSE /\ Len(tasks') = Len(tasks) + 1
               /\ tasks'[Len(tasks')].msg = received'[Len(received')]]_vars
  /\ [](\A n \in DOMAIN received :
          received[n].Nick \notin {"mallory", ""} /\ tasks[n].msg = received[n])

\* C29, the case: a short frame and a frame that is not JSON have been
\* dropped before any frame was parsed, and the frame read after them has
\* been handled to the end.
C29_Witness ==
  /\ Len(dropped) = 2
  /\ dropped[1].frame.binary /\ dropped[1].frame.size < 28 /\ dropped[1].after = 0
  /\ ~dropped[2].frame.valid /\ dropped[2].after = 0
  /\ Len(tasks) = 1 /\ tasks[1].pc = "done"
  /\ conn = "open"

\* ------------------------------------------------------------------------
\* Properties of the writes on a client's socket (SpecWrites).

\* the goroutines that write to client c
WritersOf(c) == {i \in DOMAIN writers : writers[i].client = c}

\* the bytes of the message of goroutine i
WholeMessage(i) ==
  writers[i].parts.length \o writers[i].parts.compression \o writers[i].parts.body

\* the bytes goroutine i has written when it stands between two of its
\* three writes
PartWritten(i) ==
  IF writers[i].pc = "compression" THEN writers[i].parts.length
  ELSE writers[i].parts.length \o writers[i].parts.compression

\* the bytes bs from pos on are messages of msgs, each as long as its
\* length prefix says, one after the other, and after them nothing or one
\* of partials
RECURSIVE Framed(_, _, _, _)
Framed(bs, pos, msgs, partials) ==
  IF pos > Len(bs) THEN TRUE
  ELSE LET n == Int32At(bs, pos) IN
       IF n.ok /\ n.value >= 5 /\ pos + n.value - 1 <= Len(bs)
       THEN /\ SubSeq(bs, pos, pos + n.value - 1) \in msgs
            /\ Framed(bs, pos + n.value, msgs, partials)
       ELSE SubSeq(bs, pos, Len(bs)) \in partials

\* C24: on each client's socket the bytes written are whole messages, the
\* length prefix, the compression flag and the body of each next to each
\* other, followed at most by the beginning of the message of the one
\* goroutine that is between two of its writes.
C24_MessagesNotInterleaved ==
  \A c \in Clients :
    LET between == {i \in WritersOf(c) : writers[i].pc \in {"compression", "body"}} IN
    /\ Cardinality(between) <= 1
    /\ Framed(sockets[c].written, 1,
              {WholeMessage(i) : i \in WritersOf(c)},
              {PartWritten(i) : i \in between})

\* C24, the case: a goroutine is between two of its writes on a client's
\* socket while another one, with another message for the same client,
\* waits for the lock.
C24_Witness ==
  \E c \in Clients : \E i, j \in WritersOf(c) :
    /\ writers[i].pc = "body"
    /\ writers[j].pc = "lock"
    /\ writers[i].msg # writers[j].msg
    /\ sockets[c].written # <<>>

\* ------------------------------------------------------------------------
\* Properties of the end of an unauthenticated session (SpecCommandsLive).

C35_FlagSetOnceNeverCleared ==
  /\ [][/\ \A i \in DOMAIN cmds : InitCheck(i) => stateDumpRequested'
        /\ stateDumpRequested => stateDumpRequested']_vars
  /\ [](/\ InitRequesters # {} => stateDumpRequested
        /\ Cardinality(InitRequesters) <= 1
        /\ (\E i \in InitRequesters : cmds[i].pc = "done" /\ cmds[i].err)
             => SyncServerSent = {})

\* C35's case: the first init's request has failed, a second client's init
\* has been handled to its end after it, and nothing was sent upstream.
C35_Witness ==
  \E i, j \in DOMAIN cmds :
    /\ i < j /\ cmds[i].client # cmds[j].client
    /\ cmds[i].cmd = "init" /\ cmds[i].pc = "done"
    /\ cmds[i].needsStateDump /\ cmds[i].err
    /\ cmds[j].cmd = "init" /\ cmds[j].pc = "done" /\ ~cmds[j].needsStateDump
    /\ stateDumpRequested /\ SyncServerSent = {}

\* ---------------------------------------------------------------------
\* Properties of a broadcast with a failing write (SpecBroadcast)

\* C40: a broadcast changes neither the active set nor any client's state,
\* whatever its writes do, and every client of the active set that has sent
\* init and whose socket is open is given the message, also when the write
\* to another client fails.
C40_FailedWriteDoesNotStopBroadcast ==
  [][\A i \in DOMAIN tasks :
       LHandlerBroadcast(i) =>
         /\ clients' = clients
         /\ \A c \in Clients :
              Registered(c) /\ clients[c].authenticated /\ c \notin FailedWrites
                => outbox'[c] = Append(outbox[c], tasks[i].out)]_vars

\* C40's case: a broadcast has been made whose write to one client failed;
\* the other client holds the message, and the failing client is still in
\* the active set.
C40_Witness ==
  \E i \in DOMAIN tasks : \E c, d \in Clients :
    /\ tasks[i].cast # <<>> /\ c \in tasks[i].failed
    /\ Registered(c)
    /\ d # c /\ clients[d].authenticated /\ outbox[d] = tasks[i].cast

\* ---------------------------------------------------------------------
\* Properties of the order of the replies to one client (SpecReplies)

\* C37, as claimed: when a client has sent two hdata requests with
\* different ids and the replies to both have been written, the reply to
\* the first request stands before the reply to the second.
C37_RepliesInRequestOrder ==
  \A i, j \in DOMAIN cmds :
    (/\ i < j /\ cmds[i].client = cmds[j].client
     /\ cmds[i].cmd = "hdata" /\ cmds[j].cmd = "hdata"
     /\ cmds[i].id # cmds[j].id)
      => \A n, m \in DOMAIN outbox[cmds[i].client] :
           (/\ outbox[cmds[i].client][n].ID = cmds[i].id
            /\ outbox[cmds[i].client][m].ID = cmds[j].id)
             => n < m

\* ---------------------------------------------------------------------
\* Properties of the names of the wire fields (SpecAliases)

\* the target and the server tag a frame names, as the program is to
\* understand them
WireTarget(f) == IF f.target # "" THEN f.target ELSE f.channel

WireServerTag(f) == IF f.server_tag # "" THEN f.server_tag ELSE f.server

\* C33: the message parsed from a frame has the frame's target, or its
\* channel when the target is empty, as Target and the frame's server_tag,
\* or its server when the server_tag is empty, as ServerTag; the line of a
\* handled message event is stored in the buffer of that ServerTag and
\* Target.
C33_CanonicalNames ==
  /\ [][ReadAliasFrame =>
          \A f \in AliasFrames :
            loopMsg' = UnmarshalJSON(f) =>
              /\ loopMsg'.Target = WireTarget(f)
              /\ loopMsg'.ServerTag = WireServerTag(f)]_vars
  /\ [](\A i \in DOMAIN tasks :
          tasks[i].pc # "start" =>
            LET key == getBufferKey(received[i].ServerTag, received[i].Target) IN
              /\ key \in DOMAIN buffers
              /\ \E n \in DOMAIN buffers[key].Lines :
                   buffers[key].Lines[n].Message = received[i].Text)

\* C33's case: a message event sent with channel and server and one sent
\* with target and server_tag have been handled, and their two lines are
\* in the same buffer.
C33_Witness ==
  \E i, j \in DOMAIN tasks :
    /\ received[i] = UnmarshalJSON(AliasFrame("libera", "", "#a", ""))
    /\ received[j] = UnmarshalJSON(AliasFrame("", "libera", "", "#a"))
    /\ tasks[i].pc = "done" /\ tasks[j].pc = "done"
    /\ Len(buffers[getBufferKey("libera", "#a")].Lines) = 2

\* ---------------------------------------------------------------------
\* Properties of the nick lists (SpecNicklist)

\* the nicks of a snapshot and of an event, as names and prefixes in order
SnapshotNicks(nicks) == [n \in DOMAIN nicks |-> <<nicks[n].Name, nicks[n].Prefix>>]

EventNicks(nicks) == [n \in DOMAIN nicks |-> <<nicks[n].Nick, nicks[n].Prefix>>]

\* C32: the handler of a nick-list event whose text parses leaves the
\* buffer of the event's server tag and target with the nicks of the event,
\* in the event's order, and nothing else as its nicks; the buffer is
\* created when the store does not hold it and keeps its lines when it
\* does; every other buffer is kept as it is.
C32_NicklistReplacesSnapshot ==
  [][\A i \in DOMAIN tasks :
       (HandleNicklist(i) /\ tasks'[i].pc = "broadcast") =>
         LET m == tasks[i].msg
             key == getBufferKey(m.ServerTag, m.Target)
         IN  /\ DOMAIN buffers' = DOMAIN buffers \cup {key}
             /\ SnapshotNicks(buffers'[key].Nicks)
                  = EventNicks(ParseNickList(m.Text).nicks)
             /\ buffers'[key].Lines
                  = IF key \in DOMAIN buffers THEN buffers[key].Lines ELSE <<>>
             /\ \A k \in DOMAIN buffers \ {key} : buffers'[k] = buffers[k]]_vars

\* C32's case: a nick-list event with two nicks has created its buffer, a
\* later event for the same buffer with no nick has emptied the snapshot,
\* and another buffer still holds its line.
C32_Witness ==
  \E i, j \in DOMAIN tasks :
    LET key == getBufferKey("libera", "#a") IN
    /\ received[i].Type = "nicklist" /\ received[i].Text = NickListText
    /\ tasks[i].made = key
    /\ received[j].Type = "nicklist" /\ received[j].Text = "[]"
    /\ tasks[j].pc = "done" /\ tasks[j].cast # <<>>
    /\ buffers[key].Nicks = <<>>
    /\ \E k \in DOMAIN buffers \ {key} : buffers[k].Lines # <<>>

\* ---------------------------------------------------------------------
\* Properties of the end of the bridge (SpecDisconnect, SpecShutdown,
\* SpecLifecycle)

\* C31: a read error ends the read loop: the disconnect handler is started
\* once and c.done is closed, so that Wait returns, and no connection is
\* made in its place; when the read loop has ended no frame is read and no
\* handler started any more, and neither a further disconnect handler nor
\* a further read loop.
C31_ReadErrorEndsDriver ==
  /\ [][ReadError =>
          /\ conn' = "broken"
          /\ life'.disconnects = life.disconnects + 1
          /\ life'.loopEnds = life.loops /\ life'.loops = life.loops]_vars
  /\ [][(life.loops > 0 /\ life.loopEnds = life.loops) =>
          /\ received' = received /\ Len(tasks') = Len(tasks)
          /\ conn' # "open"
          /\ life'.loops = life.loops /\ life'.loopEnds = life.loopEnds
          /\ life'.disconnects = life.disconnects]_vars
  /\ [](conn = "broken" => life.disconnects = 1 /\ life.loopEnds = 1)

\* C31's case: the connection has broken after a frame was read; the
\* handler of that frame has run to its end since, the request of a
\* client's init has failed to be sent, and the disconnect handler was
\* started once.
C31_Witness ==
  /\ conn = "broken" /\ life.disconnects = 1 /\ life.loopEnds = 1
  /\ \E i \in DOMAIN tasks : tasks[i].pc = "done"
  /\ \E i \in DOMAIN cmds : cmds[i].pc = "done" /\ cmds[i].err

\* C34: after Bridge.Stop the read loop and the accept loop return, c.done
\* being closed so that Wait returns; Stop closes no client's socket, a
\* client's task ends when its read fails; after Stop no client is
\* accepted, the connection stays closed and nothing is written upstream.
C34_StopEndsLoops ==
  /\ (phase = "stopped")
       ~> (/\ life.loopEnds = life.loops /\ life.loops > 0
           /\ life.acceptEnds = life.accepts)
  /\ [][/\ Stop => clients' = clients /\ conn' = "nil" /\ ~listening'
        /\ \A c \in Clients : ClientReadEnd(c) => clients'[c].state = "closing"
        /\ phase = "stopped" =>
             /\ phase' = "stopped" /\ sent' = sent /\ conn' = "nil"
             /\ \A c \in Clients : clients[c].state = "none"
                                     => clients'[c].state = "none"]_vars

\* C34's case: the bridge is stopped, both loops have returned, a client
\* is still connected while the other has gone, and the request of an init
\* made after Stop has not been sent.
C34_Witness ==
  /\ phase = "stopped"
  /\ life.loopEnds = life.loops /\ life.acceptEnds = life.accepts
  /\ life.lateSends > 0 /\ sent = <<>>
  /\ \E c, d \in Clients : clients[c].state = "active" /\ clients[d].state = "closed"

\* C36, as claimed: Server.Close is executed at most once, whatever calls
\* of Bridge.Start and Bridge.Stop are made.
C36_ServerClosedOnce == life.serverCloses <= 1

\* ---------------------------------------------------------------------
\* Properties of the locks (SpecLocks)

\* C38: whenever goroutines stand in their lock and unlock calls, one of
\* them can go on: no set of goroutines waits for each other's locks
\* (every goroutine makes finitely many calls, so that a set of goroutines
\* waiting for each other is in the end all that runs); and no mutex is
\* held for writing by one goroutine and held by another.
C38_NoDeadlock ==
  /\ Running # {} => \E k \in Running : CanStep(k)
  /\ \A k \in Running :
       \A mu \in Mutexes :
         k \in Writers(mu) => Writers(mu) \cup Readers(mu) = {k}

\* C38's case: a broadcast holds clientsMu for reading and waits for the
\* mu of a client, which the reply to a hdata request holds, while a
\* client's registration waits with its Lock of clientsMu.
C38_Witness ==
  /\ "nicklist" \in Readers("clientsMu")
  /\ threads["nicklist"].pending /\ NextCall("nicklist").mu = "client.mu"
  /\ "hdata" \in Writers("client.mu")
  /\ threads["accept"].pending

====
